---- MODULE Spec2Model ----
(***************************************************************************)
(* Model of the Oculus Rift HMD driver src/src/rift.c: the report codec    *)
(* (report rate, LED patterns, positions), the sensor message decoder and  *)
(* the device bring-up / flicker state machine.                            *)
(*                                                                         *)
(* Machine words.  TLC's integers are 32 bits wide, so the C types are     *)
(* modelled at a reduced width that keeps their wrap-around arithmetic:    *)
(*   uint32_t / int32_t  ->  TimestampBits-bit words (two's complement)    *)
(*   uint64_t            ->  ClockBits-bit words                           *)
(* Every conversion the C code performs (truncation to int32_t, the usual  *)
(* arithmetic conversion of int32_t to uint64_t) is modelled explicitly.   *)
(***************************************************************************)
EXTENDS Integers, Sequences, FiniteSets, TLC

-----------------------------------------------------------------------------
(* Bounds of the model *)

\* width of the model's stand-in for uint32_t / int32_t
TimestampBits == 16
\* width of the model's stand-in for uint64_t
ClockBits == 28
\* number of sensor messages fed to the decoder in one behaviour
MaxMessages == 3

-----------------------------------------------------------------------------
(* Machine arithmetic *)

RECURSIVE Pow2(_)
Pow2(n) == IF n = 0 THEN 1 ELSE 2 * Pow2(n - 1)

UINT32_MOD == Pow2(TimestampBits)
UINT64_MOD == Pow2(ClockBits)

\* conversion to uint32_t
ToU32(x) == x % UINT32_MOD
\* conversion to int32_t (truncation, two's complement)
ToI32(x) ==
    LET u == x % UINT32_MOD
    IN  IF u >= UINT32_MOD \div 2 THEN u - UINT32_MOD ELSE u
\* conversion to uint64_t (of an int32_t: sign extension)
ToU64(x) == x % UINT64_MOD

\* uint64_t product a * b, computed without leaving TLC's integer range
RECURSIVE MulU64(_, _)
MulU64(a, b) ==
    IF b = 0 THEN 0
    ELSE (2 * MulU64(a, b \div 2) + (b % 2) * a) % UINT64_MOD

\* C integer division of nonnegative operands
DivU64(a, b) == a \div b

\* bitwise and / or of nonnegative words
RECURSIVE BitAnd(_, _)
BitAnd(a, b) ==
    IF a = 0 \/ b = 0 THEN 0
    ELSE (a % 2) * (b % 2) + 2 * BitAnd(a \div 2, b \div 2)

RECURSIVE BitOr(_, _)
BitOr(a, b) ==
    IF a = 0 THEN b
    ELSE IF b = 0 THEN a
    ELSE (IF a % 2 = 1 \/ b % 2 = 1 THEN 1 ELSE 0)
         + 2 * BitOr(a \div 2, b \div 2)

\* x >> n of a nonnegative word
ShiftRight(x, n) == x \div Pow2(n)

-----------------------------------------------------------------------------
(* Report rate: rift_set_report_rate / rift_get_config *)

\* rift.c:160-163, without the upper clamp to the sample rate
ClampReportRate_NoCeiling(report_rate, sample_rate) ==
    IF report_rate < 5 THEN 5 ELSE report_rate

\* rift.c:160-163
ClampReportRate(report_rate, sample_rate) ==
    LET r == IF report_rate > sample_rate THEN sample_rate ELSE report_rate
    IN  IF r < 5 THEN 5 ELSE r

\* rift.c:165
PacketInterval(sample_rate, report_rate) == sample_rate \div report_rate - 1

\* rift.c:96, 175
ReportInterval(report_rate) == 1000000 \div report_rate

-----------------------------------------------------------------------------
(* State *)

VARIABLES
    \* struct _OuvrtRift, rift.c:36-56
    report_rate,
    report_interval,
    last_message_time,
    last_sample_timestamp,
    last_exposure_timestamp,
    last_exposure_count,
    \* the worker process: killed by a hardware trap
    crashed,
    \* observation of the last call of rift_decode_sensor_message:
    \* the decoder state before the call, its arguments, what it emitted
    pre,
    msg,
    out,
    nmsgs,
    all_nominal,
    accepted_run,
    \* struct _OuvrtRift and OuvrtDevice, the device state machine
    rift_type,
    active,
    flicker,
    leds_registered,
    num_points,
    patterns,
    radio_pairing,
    \* the process-wide flicker convention of the vision front end
    blobwatch_flicker,
    \* the headset at the other end of the transport
    hw,
    \* the caller's position in rift_start and its return value
    pc,
    flash_i,
    start_ret,
    \* observation of the operation in progress or last completed: the
    \* operation and its argument, every call it made to a collaborator
    \* (transport, tracker, vision front end), the result of each bring-up
    \* step
    last_op,
    calls,
    steps,
    \* the worker running rift_thread: its position and its local count
    worker,
    \* observation of the last wait of rift_thread and of what followed it
    iteration,
    since_keepalive,
    waits_inactive,
    \* the handles that report error, hangup or invalid when waited on
    hangup,
    \* struct rift_radio: the remote and the two touch controllers
    radio,
    \* the device registry behind ouvrt_device_claim_id
    ids,
    first_id,
    \* struct _OuvrtRift: the reboot request; OuvrtDevice: the handles
    reboot,
    boot_mode,
    fds,
    \* the caller's position in ouvrt_device_stop
    stop_pc,
    \* rift->tracker: the reference is held or released
    tracker,
    \* whether a discovery toggle has recorded a reboot since rift_stop ran
    reboot_recorded,
    \* rift->leds.model: the indices of points and normals written by the
    \* last rift_get_positions, and the position reports it read
    points,
    position_reads

rateVars == <<report_rate, report_interval>>

decoderVars == <<last_message_time, last_sample_timestamp,
                 last_exposure_timestamp, last_exposure_count, crashed, pre,
                 msg, out, nmsgs, all_nominal, accepted_run>>

deviceVars == <<rift_type, active, flicker, leds_registered, num_points,
                patterns, radio_pairing, blobwatch_flicker, hw, pc, flash_i,
                start_ret, last_op, calls, steps>>

workerVars == <<worker, iteration, since_keepalive, waits_inactive, hangup,
                radio, ids, first_id, reboot, boot_mode, fds, stop_pc,
                tracker, reboot_recorded>>

ledVars == <<points, position_reads>>

vars == <<rateVars, decoderVars, deviceVars, workerVars, ledVars>>

-----------------------------------------------------------------------------
(* Report codec *)

\* #define MAX_POSITIONS, rift.c:29
MAX_POSITIONS == 45

\* errno value returned negated by rift_get_boot_mode, rift.c:644
EINVAL == 22

\* boot modes of the bootload report
RIFT_BOOT_NORMAL == 0
RIFT_BOOT_BOOTLOADER == 1
RIFT_BOOT_RADIO_PAIRING == 2

\* negative results of a failed transfer (hid_get_feature_report,
\* hid_send_feature_report return < 0)
TransportErrors == {-5, -71}
TransportResults == {0} \cup TransportErrors

\* one call to a collaborator, as observed at the boundary
Call(op, id, ret, num, mode) ==
    [op |-> op, id |-> id, ret |-> ret, num |-> num, mode |-> mode]
GetFeature(id, ret, num) == Call("get_feature_report", id, ret, num, "")
SendFeature(id, ret, num, mode) ==
    Call("send_feature_report", id, ret, num, mode)

\* rift.c:146-178.  get is the transport's answer to the config read
\* (ret, and the device's sample_rate when ret >= 0), send_ret the result
\* of the config write.
rift_set_report_rate(requested, get, send_ret) ==
    IF get.ret < 0
    THEN [ret |-> get.ret, stored |-> FALSE, report_rate |-> 0,
          report_interval |-> 0, packet_interval |-> 0,
          calls |-> << GetFeature("CONFIG", get.ret, 0) >>]
    ELSE
        LET rate == ClampReportRate(requested, get.sample_rate)
            packet_interval == PacketInterval(get.sample_rate, rate)
            log == << GetFeature("CONFIG", get.ret, get.sample_rate),
                      SendFeature("CONFIG", send_ret, packet_interval, "") >>
        IN  IF send_ret < 0
            THEN [ret |-> send_ret, stored |-> FALSE, report_rate |-> 0,
                  report_interval |-> 0, packet_interval |-> packet_interval,
                  calls |-> log]
            ELSE [ret |-> 0, stored |-> TRUE, report_rate |-> rate,
                  report_interval |-> ReportInterval(rate),
                  packet_interval |-> packet_interval, calls |-> log]

\* rift.c:76-99.  The device reports sample_rate >= packet_interval + 1.
rift_get_config(get) ==
    IF get.ret < 0
    THEN [ret |-> get.ret, stored |-> FALSE, report_rate |-> 0,
          report_interval |-> 0,
          calls |-> << GetFeature("CONFIG", get.ret, 0) >>]
    ELSE
        LET rate == get.sample_rate \div (get.packet_interval + 1)
        IN  [ret |-> 0, stored |-> TRUE, report_rate |-> rate,
             report_interval |-> ReportInterval(rate),
             calls |-> << GetFeature("CONFIG", get.ret, get.sample_rate) >>]

\* rift.c:324, accepting any word whose low symbol bits are set
LedPatternValid_LowBits(pattern) == BitAnd(pattern, 349525) = 349525

\* rift.c:324: (pattern & ~0xaaaaa) != 0x55555 rejects the word
LedPatternValid(pattern) == pattern - BitAnd(pattern, 699050) = 349525

\* rift.c:331-339, with the last folding step (>> 8) left out
CompactLedPattern_NoFold8(pattern) ==
    LET p1 == BitAnd(pattern, 699050)
        p2 == BitAnd(BitOr(p1, ShiftRight(p1, 1)), 419430)
        p3 == BitAnd(BitOr(p2, ShiftRight(p2, 2)), 925214)
        p4 == BitAnd(BitOr(p3, ShiftRight(p3, 4)), 918014)
    IN  BitAnd(ShiftRight(p4, 1), 1023)

\* rift.c:331-339: ten 2-bit symbols to ten bits, 1 -> 0, 3 -> 1
\* (0xaaaaa = 699050, 0x66666 = 419430, 0xe1e1e = 925214,
\*  0xe01fe = 918014, 0x3ff = 1023)
CompactLedPattern(pattern) ==
    LET p1 == BitAnd(pattern, 699050)
        p2 == BitAnd(BitOr(p1, ShiftRight(p1, 1)), 419430)
        p3 == BitAnd(BitOr(p2, ShiftRight(p2, 2)), 925214)
        p4 == BitAnd(BitOr(p3, ShiftRight(p3, 4)), 918014)
        p5 == BitOr(p4, ShiftRight(p4, 8))
    IN  BitAnd(ShiftRight(p5, 1), 1023)

\* rift.c:305-350: the loop over the pattern reports.  report is the one
\* just read, reads the number of reports read so far, responses the
\* transport's answers to this and the following reads.
RECURSIVE LedPatternLoop(_, _, _, _, _, _, _)
LedPatternLoop(responses, i, num, report, reads, stored, log) ==
    IF report.index >= num \/ report.pattern_length # 10
       \/ ~LedPatternValid(report.pattern)
    THEN [ret |-> -1, patterns |-> stored, reads |-> reads, calls |-> log]
    ELSE
        LET stored2 == (report.index :> CompactLedPattern(report.pattern))
                       @@ stored
        IN  IF i + 1 = num
            THEN [ret |-> 0, patterns |-> stored2, reads |-> reads,
                  calls |-> log]
            ELSE
                LET next == responses[reads + 1]
                    log2 == Append(log, GetFeature("LED_PATTERN", next.ret,
                                                   next.index))
                IN  IF next.ret < 0
                    THEN [ret |-> next.ret, patterns |-> stored2,
                          reads |-> reads + 1, calls |-> log2]
                    ELSE LedPatternLoop(responses, i + 1, num, next,
                                        reads + 1, stored2, log2)

\* rift.c:284-353.  responses are the transport's answers to the
\* successive pattern reads, stored the patterns array before the call.
rift_get_led_patterns(responses, model_num_points, stored) ==
    LET first == responses[1]
        log == << GetFeature("LED_PATTERN", first.ret, first.num) >>
    IN  IF first.ret < 0
        THEN [ret |-> first.ret, patterns |-> stored, reads |-> 1,
              calls |-> log]
        ELSE IF first.num > model_num_points
        THEN [ret |-> -1, patterns |-> stored, reads |-> 1, calls |-> log]
        ELSE LedPatternLoop(responses, 0, first.num, first, 1, stored, log)

\* rift.c:233-235, without the bound on the reported number of positions
TooManyPositions_Unchecked(num) == FALSE

\* rift.c:233-235
TooManyPositions(num) == num > MAX_POSITIONS

\* rift.c:239-276: the loop over the position reports; leds are the
\* indices written to leds.model.points / normals
RECURSIVE PositionLoop(_, _, _, _, _, _, _)
PositionLoop(responses, i, num, report, reads, leds, log) ==
    IF report.index >= num
    THEN [ret |-> -1, num_points |-> num - 1, leds |-> leds,
          reads |-> reads, calls |-> log]
    ELSE
        LET leds2 == IF report.type = "LED" THEN leds \cup {report.index}
                     ELSE leds
        IN  IF i + 1 = num
            THEN [ret |-> 0, num_points |-> num - 1, leds |-> leds2,
                  reads |-> reads, calls |-> log]
            ELSE
                LET next == responses[reads + 1]
                    log2 == Append(log, GetFeature("POSITION", next.ret,
                                                   next.num))
                IN  IF next.ret < 0
                    THEN [ret |-> next.ret, num_points |-> num - 1,
                          leds |-> leds2, reads |-> reads + 1,
                          calls |-> log2]
                    ELSE PositionLoop(responses, i + 1, num, next,
                                      reads + 1, leds2, log2)

\* rift.c:216-279.  leds_init(&rift->leds, num - 1) sets the model's
\* number of points; old_num_points is the number before the call.
rift_get_positions(responses, old_num_points) ==
    LET first == responses[1]
        log == << GetFeature("POSITION", first.ret, first.num) >>
    IN  IF first.ret < 0
        THEN [ret |-> first.ret, num_points |-> old_num_points, leds |-> {},
              reads |-> 1, calls |-> log]
        ELSE IF TooManyPositions(first.num)
        THEN [ret |-> -1, num_points |-> old_num_points, leds |-> {},
              reads |-> 1, calls |-> log]
        ELSE PositionLoop(responses, 0, first.num, first, 1, {}, log)

\* rift.c:627-648
rift_get_boot_mode(get) ==
    [ret |-> IF get.ret < 0 THEN get.ret
             ELSE IF get.bootload \notin {RIFT_BOOT_NORMAL,
                                          RIFT_BOOT_BOOTLOADER,
                                          RIFT_BOOT_RADIO_PAIRING}
                  THEN 0 - EINVAL
                  ELSE get.bootload,
     calls |-> << GetFeature("BOOTLOAD", get.ret,
                             IF get.ret < 0 THEN 0 ELSE get.bootload) >>]

\* rift.c:650-683: mode is the answer to the boot mode read, send_ret and
\* get_ret the results of setting the flash address and reading the page
rift_read_flash(index, mode, send_ret, get_ret) ==
    LET boot == rift_get_boot_mode(mode)
    IN  IF boot.ret < 0 \/ boot.ret # RIFT_BOOT_NORMAL
        THEN [ret |-> boot.ret, calls |-> boot.calls]
        ELSE IF send_ret < 0
        THEN [ret |-> send_ret,
              calls |-> boot.calls \o
                        << SendFeature("CV1_READ_FLASH", send_ret, index, "") >>]
        ELSE [ret |-> IF get_ret < 0 THEN get_ret ELSE 0,
              calls |-> boot.calls \o
                        << SendFeature("CV1_READ_FLASH", send_ret, index, ""),
                           GetFeature("CV1_READ_FLASH", get_ret, index) >>]

\* rift.c:392-420: blink selects the pattern and the auto-increment flag
rift_send_tracking(blink, send_ret) ==
    [ret |-> send_ret,
     calls |-> << SendFeature("TRACKING", send_ret, 0,
                              IF blink THEN "blink" ELSE "always_on") >>]

\* a report that is read, modified and written back: rift_send_display
\* (rift.c:426-459), rift_cv1_power_up (rift.c:464-478),
\* rift_cv1_power_down (rift.c:483-497)
ReadModifyWrite(id, mode, get_ret, send_ret) ==
    IF get_ret < 0
    THEN [ret |-> get_ret, calls |-> << GetFeature(id, get_ret, 0) >>]
    ELSE [ret |-> send_ret,
          calls |-> << GetFeature(id, get_ret, 0),
                       SendFeature(id, send_ret, 0, mode) >>]

rift_send_display(get_ret, send_ret) ==
    ReadModifyWrite("DISPLAY", "low_persistence", get_ret, send_ret)

rift_cv1_power_up(get_ret, send_ret) ==
    ReadModifyWrite("CV1_POWER", "up", get_ret, send_ret)

\* a report that is only read: rift_get_uuid (rift.c:358-373),
\* rift_get_ranges (rift.c:183-203, a range mismatch is only logged),
\* rift_get_imu_calibration (rift.c:104-141)
ReadOnly(id, get_ret) ==
    [ret |-> IF get_ret < 0 THEN get_ret ELSE 0,
     calls |-> << GetFeature(id, get_ret, 0) >>]

rift_get_uuid(get_ret) == ReadOnly("UUID", get_ret)
rift_get_ranges(get_ret) == ReadOnly("RANGE", get_ret)
rift_get_imu_calibration(get_ret) == ReadOnly("IMU_CALIBRATION", get_ret)

\* rift_radio_get_address: one exchange on the main handle that yields the
\* radio address or fails
rift_radio_get_address(ret) ==
    [ret |-> ret, calls |-> << Call("radio_get_address", "RADIO", ret, 0, "") >>]

\* rift_get_firmware_version: an exchange on the main handle whose result
\* rift_start does not look at (rift.c:716)
rift_get_firmware_version(ret) ==
    [ret |-> ret,
     calls |-> << Call("get_firmware_version", "RADIO", ret, 0, "") >>]

-----------------------------------------------------------------------------
(* Sensor message decoder: rift_decode_sensor_message, rift.c:515-625 *)

\* sizeof(struct rift_sensor_message), the fixed message length
SENSOR_MESSAGE_SIZE == 64

\* rift.c:551: dt = sample_timestamp - rift->last_sample_timestamp, the
\* uint64_t difference truncated to int32_t
SampleDt(sample_timestamp, last_sample) ==
    ToI32(ToU64(sample_timestamp - last_sample))

\* rift.c:553: rift->last_sample_timestamp += dt
AdvanceClock(last_sample, dt) == ToU64(last_sample + ToU64(dt))

\* rift.c:555-556, a window one microsecond too narrow at the top
OutsideWindow_Narrow(dt, num_samples, interval) ==
    \/ dt < num_samples * interval - 75
    \/ dt >= num_samples * interval + 75

\* rift.c:555-556
OutsideWindow(dt, num_samples, interval) ==
    \/ dt < num_samples * interval - 75
    \/ dt > num_samples * interval + 75

\* rift.c:566, forgetting the samples the message does carry
LostSamples_Total(dt, num_samples, interval) == (dt + 1) \div interval

\* rift.c:566: the number of lost samples that is printed
LostSamples(dt, num_samples, interval) ==
    (dt + 1) \div interval - num_samples

\* rift.c:560-569: the diagnostic printed for a rejected message
Diagnostic(dt, num_samples, interval) ==
    IF dt < 0 THEN [kind |-> "negative", lost |-> 0]
    ELSE IF dt + 1 >= (num_samples + 1) * interval
         THEN [kind |-> "lost",
               lost |-> LostSamples(dt, num_samples, interval)]
         ELSE [kind |-> "jitter", lost |-> 0]

NoDiagnostic == [kind |-> "none", lost |-> 0]

\* rift.c:587, taking the count from the message unchecked
EmittedSamples_Unclamped(num_samples) == num_samples

\* rift.c:587: num_samples = num_samples > 1 ? 2 : 1
EmittedSamples(num_samples) == IF num_samples > 1 THEN 2 ELSE 1

\* rift.c:588-603: one telemetry sample and one pose update per embedded
\* sample; sample.time is 1e-6 * sample_timestamp (rift.c:549), the pose
\* integrator gets 1e-6 / num_samples * dt
ImuSamples(count, sample_timestamp, dt) ==
    [i \in 1..count |->
        [time |-> sample_timestamp, dt |-> dt, num_samples |-> count]]

\* rift.c:606-607: (int32_t)sample_timestamp - exposure_timestamp
SampleExpoDt(sample_timestamp, exposure_timestamp) ==
    ToI32(sample_timestamp - exposure_timestamp)

\* rift.c:608-610: evaluated in uint64_t; the int32_t operands
\* sample_expo_dt and dt are converted to uint64_t.  The divisor is not 0.
ExposureTime(message_time, last_time, sample_expo_dt, dt) ==
    ToU64(message_time -
          DivU64(MulU64(ToU64(message_time - last_time),
                        ToU64(sample_expo_dt)),
                 ToU64(dt)))

\* rift.c:557-570, resynchronising by also resetting the exposure counter
RejectMessage_Bookkeeping(rift, clock, dt, num_samples, message_time) ==
    [rift |-> [rift EXCEPT !.last_message_time = message_time,
                           !.last_sample_timestamp = clock,
                           !.last_exposure_count = 0],
     samples |-> <<>>,
     exposures |-> <<>>,
     diag |-> IF ToU64(clock - ToU64(dt)) = 0
              THEN NoDiagnostic
              ELSE Diagnostic(dt, num_samples, rift.report_interval),
     trap |-> FALSE]

\* rift.c:557-570, with the unwrapped clock left where it was before the
\* message
RejectMessage_KeepClock(rift, clock, dt, num_samples, message_time) ==
    [rift |-> [rift EXCEPT !.last_message_time = message_time],
     samples |-> <<>>,
     exposures |-> <<>>,
     diag |-> IF ToU64(clock - ToU64(dt)) = 0
              THEN NoDiagnostic
              ELSE Diagnostic(dt, num_samples, rift.report_interval),
     trap |-> FALSE]

\* rift.c:557-570: a message outside the window; the unwrapped clock was
\* already advanced at rift.c:553
RejectMessage(rift, clock, dt, num_samples, message_time) ==
    [rift |-> [rift EXCEPT !.last_message_time = message_time,
                           !.last_sample_timestamp = clock],
     samples |-> <<>>,
     exposures |-> <<>>,
     diag |-> IF ToU64(clock - ToU64(dt)) = 0
              THEN NoDiagnostic
              ELSE Diagnostic(dt, num_samples, rift.report_interval),
     trap |-> FALSE]

\* rift.c:605-619.  ub is what an integer division by zero does on the
\* build's target: "trap" kills the process, "zero" yields a quotient of 0.
CorrelateExposure(rift, clock, dt, message, message_time, samples, ub) ==
    LET accepted == [rift EXCEPT !.last_sample_timestamp = clock]
    IN
    IF message.exposure_count = rift.last_exposure_count
    THEN [rift |-> [accepted EXCEPT !.last_message_time = message_time],
          samples |-> samples, exposures |-> <<>>,
          diag |-> NoDiagnostic, trap |-> FALSE]
    ELSE IF ToU64(dt) = 0 /\ ub = "trap"
    THEN [rift |-> accepted,
          samples |-> samples, exposures |-> <<>>,
          diag |-> NoDiagnostic, trap |-> TRUE]
    ELSE
        LET sample_expo_dt == SampleExpoDt(message.timestamp,
                                           message.exposure_timestamp)
            exposure_time ==
                IF ToU64(dt) = 0 THEN message_time
                ELSE ExposureTime(message_time, rift.last_message_time,
                                  sample_expo_dt, dt)
        IN [rift |-> [accepted EXCEPT
                        !.last_exposure_timestamp = message.exposure_timestamp,
                        !.last_exposure_count = message.exposure_count,
                        !.last_message_time = message_time],
            samples |-> samples,
            exposures |-> << [exposure_timestamp |-> message.exposure_timestamp,
                              exposure_time |-> exposure_time,
                              led_pattern_phase |-> message.led_pattern_phase] >>,
            diag |-> NoDiagnostic, trap |-> FALSE]

\* rift.c:515-625
rift_decode_sensor_message(rift, message, len, message_time, ub) ==
    IF len < SENSOR_MESSAGE_SIZE
    THEN [rift |-> rift, samples |-> <<>>, exposures |-> <<>>,
          diag |-> NoDiagnostic, trap |-> FALSE]
    ELSE
        LET dt == SampleDt(message.timestamp, rift.last_sample_timestamp)
            clock == AdvanceClock(rift.last_sample_timestamp, dt)
        IN  IF OutsideWindow(dt, message.num_samples, rift.report_interval)
            THEN RejectMessage(rift, clock, dt, message.num_samples,
                               message_time)
            ELSE CorrelateExposure(rift, clock, dt, message, message_time,
                                   ImuSamples(EmittedSamples(message.num_samples),
                                              message.timestamp, dt),
                                   ub)

-----------------------------------------------------------------------------
(* Flicker mode: ouvrt_rift_set_flicker, rift.c:1017-1027 *)

FlickerMode(on) == IF on THEN "blink" ELSE "always_on"

\* rift.c:1025, re-sending the tracking report whatever the device state
SendsTracking_Always(is_active) == TRUE

\* rift.c:1025: if (rift->dev.active)
SendsTracking(is_active) == is_active

\* rift.c:1017-1027: the new flag and the calls made
ouvrt_rift_set_flicker(old, is_active, new, send_ret) ==
    IF old = new
    THEN [flicker |-> old, broadcast |-> FALSE, calls |-> <<>>]
    ELSE [flicker |-> new, broadcast |-> TRUE,
          calls |-> << Call("blobwatch_set_flicker", "", 0, 0,
                            FlickerMode(new)) >>
                    \o (IF SendsTracking(is_active)
                        THEN rift_send_tracking(new, send_ret).calls
                        ELSE <<>>)]

-----------------------------------------------------------------------------
(* The decoder fed with sensor messages: the call at rift.c:838 *)

\* the rift fields the decoder reads and writes
ClockState ==
    [report_interval |-> report_interval,
     last_message_time |-> last_message_time,
     last_sample_timestamp |-> last_sample_timestamp,
     last_exposure_timestamp |-> last_exposure_timestamp,
     last_exposure_count |-> last_exposure_count]

\* message->num_samples values fed to the decoder (a uint8_t on the wire)
NumSamplesValues == 0..3

\* how far the hardware sample timestamp of a message lies after the one of
\* the message before, by kind of message
TimestampStep(kind, num_samples, interval) ==
    CASE kind = "nominal"   -> num_samples * interval
      [] kind = "early"     -> num_samples * interval - 75
      [] kind = "too_early" -> num_samples * interval - 76
      [] kind = "late"      -> num_samples * interval + 75
      [] kind = "too_late"  -> num_samples * interval + 76
      [] kind = "loss5"     -> interval * (num_samples + 5)
      [] kind = "back"      -> 0 - interval

TimingKinds ==
    {"nominal", "early", "too_early", "late", "too_late", "loss5", "back"}

\* the exposure a message reports: the one already seen, or a new one that
\* happened k microseconds before the sample
ExposureInputs(ks) ==
    {[new |-> FALSE, k |-> 0]} \cup {[new |-> TRUE, k |-> k] : k \in ks}

\* One sensor message is read and decoded.  The message is an input: its
\* sample timestamp is `step` after the previous one, its exposure counter
\* is the last one seen or the next, with the exposure k microseconds before
\* the sample; the monotonic clock has advanced by d.
SensorMessage(nums, kinds, ks, ds) ==
    /\ ~crashed
    /\ nmsgs < MaxMessages
    /\ \E num_samples \in nums, kind \in kinds,
          expo \in ExposureInputs(ks), d \in ds :
        LET step == TimestampStep(kind, num_samples, report_interval)
            timestamp == ToU32(last_sample_timestamp + step)
            message ==
                [num_samples |-> num_samples,
                 timestamp |-> timestamp,
                 exposure_count |->
                    IF expo.new THEN (last_exposure_count + 1) % 65536
                    ELSE last_exposure_count,
                 exposure_timestamp |->
                    IF expo.new THEN ToU32(timestamp - expo.k)
                    ELSE last_exposure_timestamp,
                 led_pattern_phase |-> nmsgs % 10]
            message_time == last_message_time + d
        IN \E r \in {rift_decode_sensor_message(ClockState, message,
                                                SENSOR_MESSAGE_SIZE,
                                                message_time, ub) :
                        ub \in {"trap", "zero"}} :
            /\ pre' = ClockState
            /\ msg' = [message |-> message, message_time |-> message_time,
                       prev_timestamp |-> msg.message.timestamp,
                       prev_accepted |-> out.samples # <<>>,
                       prev_sample_time |->
                          IF out.samples = <<>> THEN msg.prev_sample_time
                          ELSE out.samples[Len(out.samples)].time]
            /\ out' = [samples |-> r.samples, exposures |-> r.exposures,
                       diag |-> r.diag, trap |-> r.trap]
            /\ last_message_time' = r.rift.last_message_time
            /\ last_sample_timestamp' = r.rift.last_sample_timestamp
            /\ last_exposure_timestamp' = r.rift.last_exposure_timestamp
            /\ last_exposure_count' = r.rift.last_exposure_count
            /\ crashed' = r.trap
            /\ nmsgs' = nmsgs + 1
            /\ all_nominal' = (all_nominal /\ kind = "nominal")
            /\ accepted_run' = IF r.samples = <<>> THEN 0
                               ELSE IF accepted_run = 0 THEN 1 ELSE 2
            /\ UNCHANGED <<rateVars, deviceVars, workerVars, ledVars>>

-----------------------------------------------------------------------------
(* The worker: rift_thread, rift.c:789-873 *)

\* rift.c:378-387: one feature report on the main handle
rift_send_keepalive(send_ret) ==
    [ret |-> send_ret,
     calls |-> << SendFeature("KEEPALIVE", send_ret, 0, "") >>]

\* rift.c:802, a loop that does not look at dev->active
LoopCondition_Forever(is_active) == TRUE

\* rift.c:802: while (dev->active)
LoopCondition(is_active) == is_active

\* rift.c:812-813, without the count of decoded messages
KeepaliveDue_NoCount(ret, count, rate) == ret = -1 \/ ret = 0

\* rift.c:812-813: if (ret == -1 || ret == 0 || count > 9 * rift->report_rate)
KeepaliveDue(ret, count, rate) == ret = -1 \/ ret = 0 \/ count > 9 * rate

\* rift.c:821-822, looking at the main handle only
PollHangup_MainOnly(poll) == poll.main = "err"

\* rift.c:821-822: POLLERR, POLLHUP or POLLNVAL in the revents of either
\* handle
PollHangup(poll) == poll.main = "err" \/ poll.radio = "err"

\* what poll(fds, 2, 1000) can return (rift.c:803-810): -1 when the wait
\* fails, 0 when it times out, else the number of handles with events, each
\* readable ("in") or in an error, hangup or invalid condition ("err").
\* hung are the handles in such a condition, which poll reports at once and
\* for as long as it lasts; a negative descriptor is ignored by poll.
PollResults(hung, handles) ==
    LET events(i) == IF handles[i + 1] < 0 THEN {"none"}
                     ELSE IF i \in hung THEN {"err"}
                     ELSE {"none", "in"}
        ready == {[main |-> m, radio |-> r] :
                     m \in events(0), r \in events(1)}
                 \ {[main |-> "none", radio |-> "none"]}
        n(e) == (IF e.main = "none" THEN 0 ELSE 1)
                + (IF e.radio = "none" THEN 0 ELSE 1)
    IN  {[ret |-> n(e), main |-> e.main, radio |-> e.radio] : e \in ready}
        \cup (IF hung = {}
              THEN {[ret |-> r, main |-> "none", radio |-> "none"] :
                       r \in {-1, 0}}
              ELSE {})

\* what read() on the main handle can return (rift.c:826): a full message,
\* fewer than 64 bytes, or -1
MainReads == {"message", "short", "error"}

\* the slots of struct rift_radio (rift.c:861-870, in this order)
Slots == << "remote", "touch0", "touch1" >>

\* the serials a radio report can carry for each slot: the remote can be
\* replaced by another one during a session
Serials ==
    [remote |-> {"R1", "R2"}, touch0 |-> {"L1"}, touch1 |-> {"T1"}]

\* the contents of a valid radio report: for each slot whether a peripheral
\* is present, and its serial
RadioReports ==
    {[remote |-> [active |-> a0, serial |-> s0],
      touch0 |-> [active |-> a1, serial |-> "L1"],
      touch1 |-> [active |-> a2, serial |-> "T1"]] :
        a0 \in BOOLEAN, a1 \in BOOLEAN, a2 \in BOOLEAN,
        s0 \in Serials.remote}

\* what read() on the radio handle can return (rift.c:842-855): a valid
\* 64-byte report, one of another length or report id, or -1
RadioReads ==
    {[kind |-> "report", report |-> r] : r \in RadioReports}
    \cup {[kind |-> k, report |-> CHOOSE r \in RadioReports : TRUE] :
             k \in {"invalid", "error"}}

\* rift_decode_radio_report (rift.c:857): sets the activity and the serial
\* of each slot from the report and leaves dev_id alone
rift_decode_radio_report(rad, report) ==
    [s \in DOMAIN rad |->
        [rad[s] EXCEPT !.active = report[s].active,
                       !.serial = IF report[s].active THEN report[s].serial
                                  ELSE rad[s].serial]]

\* ouvrt_device_claim_id: the id registered for the serial, or the next
\* unused id, which is then registered for it; ids start at 1
ouvrt_device_claim_id(registry, serial) ==
    IF serial \in DOMAIN registry
    THEN [id |-> registry[serial], ids |-> registry]
    ELSE LET id == Cardinality(DOMAIN registry) + 1
         IN  [id |-> id,
              ids |-> [s \in DOMAIN registry \cup {serial} |->
                          IF s = serial THEN id ELSE registry[s]]]

\* rift.c:863, claiming whenever the slot is active
ClaimsId_WhenActive(c) == c.active

\* rift.c:863, 866, 869: if (c->active && !c->dev_id)
ClaimsId(c) == c.active /\ c.dev_id = 0

\* rift.c:861-870: the three slots in turn; the result is the slots, the
\* registry and the serials an id was requested for
RECURSIVE ClaimLoop(_, _, _, _)
ClaimLoop(i, rad, registry, requested) ==
    IF i > Len(Slots)
    THEN [radio |-> rad, ids |-> registry, requested |-> requested]
    ELSE LET s == Slots[i]
             c == rad[s]
         IN  IF ClaimsId(c)
             THEN LET r == ouvrt_device_claim_id(registry, c.serial)
                  IN  ClaimLoop(i + 1,
                                [rad EXCEPT ![s].dev_id = r.id],
                                r.ids, Append(requested, c.serial))
             ELSE ClaimLoop(i + 1, rad, registry, requested)

\* the message the headset sends while it does not move on: it repeats the
\* sample timestamp and the exposure the decoder holds
RepeatedMessage(rift) ==
    [num_samples |-> 1,
     timestamp |-> ToU32(rift.last_sample_timestamp),
     exposure_count |-> rift.last_exposure_count,
     exposure_timestamp |-> rift.last_exposure_timestamp,
     led_pattern_phase |-> 0]

\* the observation of one wait: what poll and the reads returned, the count
\* before, and what the iteration did
NoIteration ==
    [polled |-> FALSE, ret |-> 0, main |-> "none", radio |-> "none",
     main_read |-> "",
     radio_read |-> "", count_before |-> 0, count_after |-> 0,
     keepalive |-> FALSE, decoded |-> FALSE,
     radio_decoded |-> FALSE, exit |-> FALSE, requested |-> <<>>]

\* rift.c:810-871: the control flow of one iteration after poll returned:
\* main_read and radio_read are what the reads return if they are made
rift_thread_iteration(poll, main_read, radio_read, count, rate) ==
    LET it == [NoIteration EXCEPT !.polled = TRUE,
                                  !.ret = poll.ret, !.main = poll.main,
                                  !.radio = poll.radio,
                                  !.count_before = count,
                                  !.count_after = count]
        radio_part(i) ==
            IF i.radio # "in" THEN i
            ELSE [i EXCEPT !.radio_read = radio_read.kind,
                           !.radio_decoded = radio_read.kind = "report"]
    IN  IF KeepaliveDue(poll.ret, count, rate)
        THEN [it EXCEPT !.keepalive = TRUE, !.count_after = 0]
        ELSE IF PollHangup(poll)
        THEN [it EXCEPT !.exit = TRUE]
        ELSE IF poll.main = "in"
        THEN IF main_read # "message"
             THEN [it EXCEPT !.main_read = main_read]
             ELSE radio_part([it EXCEPT !.main_read = main_read,
                                        !.decoded = TRUE,
                                        !.count_after = count + 1])
        ELSE radio_part(it)

\* the device after construction and open: no worker, no peripheral known,
\* no keepalive sent (since_keepalive is -1), no reboot requested; the main
\* handle is open, the radio handle is open on the CV1 and absent on the DK2
WorkerIdle ==
    /\ worker = [pc |-> "none", count |-> 0]
    /\ iteration = NoIteration
    /\ since_keepalive = -1
    /\ waits_inactive = 0
    /\ hangup = {}
    /\ radio = [s \in {"remote", "touch0", "touch1"} |->
                   [active |-> FALSE, dev_id |-> 0, serial |-> ""]]
    /\ ids = [s \in {} |-> 0]
    /\ first_id = [s \in {"remote", "touch0", "touch1"} |-> 0]
    /\ reboot = FALSE
    /\ boot_mode = 0
    /\ fds = IF rift_type = "RIFT_CV1" THEN <<3, 4>> ELSE <<3, -1>>
    /\ stop_pc = "none"
    /\ tracker = "held"
    /\ reboot_recorded = FALSE

-----------------------------------------------------------------------------
(* The device and its bring-up: rift_start, rift.c:688-784 *)

\* the operation observed in last_op
Operation(name, num, on, was, ret) ==
    [name |-> name, num |-> num, on |-> on, was |-> was, ret |-> ret]

\* factory position tables a headset can hold: two LEDs and the IMU; more
\* entries than the driver accepts; an entry whose index is out of range
PositionTables ==
    { << [num |-> 3, index |-> 0, type |-> "LED"],
         [num |-> 3, index |-> 1, type |-> "LED"],
         [num |-> 3, index |-> 2, type |-> "IMU"] >>,
      << [num |-> 46, index |-> 0, type |-> "LED"] >>,
      << [num |-> 3, index |-> 0, type |-> "LED"],
         [num |-> 3, index |-> 3, type |-> "LED"],
         [num |-> 3, index |-> 2, type |-> "IMU"] >> }

\* LED pattern tables: two valid patterns (0x55555, 0x77777); a symbol that
\* is neither 1 nor 3 (0x55554); a pattern length other than 10
PatternTables ==
    { << [num |-> 2, index |-> 0, pattern_length |-> 10, pattern |-> 349525],
         [num |-> 2, index |-> 1, pattern_length |-> 10, pattern |-> 489335] >>,
      << [num |-> 2, index |-> 0, pattern_length |-> 10, pattern |-> 489335],
         [num |-> 2, index |-> 1, pattern_length |-> 10, pattern |-> 349524] >>,
      << [num |-> 2, index |-> 0, pattern_length |-> 12, pattern |-> 349525],
         [num |-> 2, index |-> 1, pattern_length |-> 10, pattern |-> 349525] >> }

\* the transport's answers to successive reads of a table: the device
\* steps through its table cyclically, the read number fail_at fails
TableResponses(table, fail_at, err) ==
    [j \in 1..(MAX_POSITIONS + 1) |->
        [ret |-> IF j = fail_at THEN err ELSE 0]
        @@ table[((j - 1) % Len(table)) + 1]]

\* boot modes the bootload report of a CV1 can hold (255: none known)
BootModes ==
    {RIFT_BOOT_NORMAL, RIFT_BOOT_BOOTLOADER, RIFT_BOOT_RADIO_PAIRING, 255}

\* the state after rift_new and ouvrt_rift_init (rift.c:977-1005) for a
\* headset with the given properties
DeviceInitWith(types, modes, sample_rates, position_tables, pattern_tables) ==
    /\ rift_type \in types
    /\ active = FALSE
    /\ flicker = FALSE
    /\ leds_registered = FALSE
    /\ num_points = 0
    /\ patterns = [i \in {} |-> 0]
    /\ radio_pairing = FALSE
    /\ blobwatch_flicker = FALSE
    /\ \E mode \in modes, sample_rate \in sample_rates,
          positions \in position_tables, led_patterns \in pattern_tables :
        hw = [boot_mode |-> IF rift_type = "RIFT_CV1" THEN mode
                            ELSE RIFT_BOOT_NORMAL,
              sample_rate |-> sample_rate,
              packet_interval |-> 0,
              tracking |-> "off",
              positions |-> positions,
              led_patterns |-> led_patterns]
    /\ pc = "idle"
    /\ flash_i = 0
    /\ start_ret = 0
    /\ last_op = Operation("none", 0, FALSE, FALSE, 0)
    /\ calls = <<>>
    /\ steps = <<>>
    /\ points = {}
    /\ position_reads = 0
    /\ WorkerIdle

\* rift.c:720-721 and alike, with the result of the step not looked at
Failed_Ignored(ret) == FALSE

\* rift.c:720-721 and alike: if (ret < 0) return ret;
Failed(ret) == ret < 0

\* a step of rift_start whose failure aborts: r is the step's result and
\* the calls it made, next the step that follows
StepDone(name, r, next) ==
    /\ calls' = calls \o r.calls
    /\ steps' = Append(steps, [step |-> name, ret |-> r.ret])
    /\ IF Failed(r.ret)
       THEN pc' = "returned" /\ start_ret' = r.ret
       ELSE pc' = next /\ start_ret' = start_ret

IsCV1 == rift_type = "RIFT_CV1"

\* ouvrt_device_start calls the device's start hook
DeviceStart ==
    /\ pc = "idle"
    /\ ~active
    /\ stop_pc # "joining"
    /\ fds[1] >= 0
    /\ pc' = IF IsCV1 THEN "boot_mode" ELSE "uuid"
    /\ last_op' = Operation("rift_start", 0, FALSE, FALSE, 0)
    /\ calls' = <<>>
    /\ steps' = <<>>
    /\ start_ret' = 0
    /\ UNCHANGED <<rift_type, active, flicker, leds_registered, num_points,
                   patterns, radio_pairing, blobwatch_flicker, hw, flash_i>>
    /\ UNCHANGED <<rateVars, decoderVars, workerVars, ledVars>>

\* rift.c:693-696: the result of the read is only compared with
\* RIFT_BOOT_RADIO_PAIRING
StartBootMode ==
    /\ pc = "boot_mode"
    /\ \E get_ret \in TransportResults :
        LET r == rift_get_boot_mode([ret |-> get_ret,
                                     bootload |-> hw.boot_mode])
        IN  /\ radio_pairing' = IF r.ret = RIFT_BOOT_RADIO_PAIRING
                                THEN TRUE ELSE radio_pairing
            /\ calls' = calls \o r.calls
            /\ steps' = Append(steps, [step |-> "boot_mode", ret |-> r.ret])
    /\ pc' = "radio_address"
    /\ UNCHANGED <<rift_type, active, flicker, leds_registered, num_points,
                   patterns, blobwatch_flicker, hw, flash_i, start_ret,
                   last_op>>
    /\ UNCHANGED <<rateVars, decoderVars, workerVars, ledVars>>

\* rift.c:698-704
StartRadioAddress ==
    /\ pc = "radio_address"
    /\ \E ret \in TransportResults :
        LET r == rift_radio_get_address(ret)
        IN  StepDone("radio_address",
                     [ret |-> r.ret,
                      calls |-> IF r.ret < 0 THEN r.calls
                                ELSE Append(r.calls,
                                            Call("tracker_set_radio_address",
                                                 "", 0, 0, ""))],
                     "uuid")
    /\ UNCHANGED <<rift_type, active, flicker, leds_registered, num_points,
                   patterns, radio_pairing, blobwatch_flicker, hw, flash_i,
                   last_op>>
    /\ UNCHANGED <<rateVars, decoderVars, workerVars, ledVars>>

\* rift.c:707-711
StartUuid ==
    /\ pc = "uuid"
    /\ \E get_ret \in TransportResults :
        StepDone("uuid", rift_get_uuid(get_ret),
                 IF IsCV1 THEN "firmware_version" ELSE "ranges")
    /\ UNCHANGED <<rift_type, active, flicker, leds_registered, num_points,
                   patterns, radio_pairing, blobwatch_flicker, hw, flash_i,
                   last_op>>
    /\ UNCHANGED <<rateVars, decoderVars, workerVars, ledVars>>

\* rift.c:713-717: neither result is looked at beyond the comparison with
\* RIFT_BOOT_NORMAL
StartFirmwareVersion ==
    /\ pc = "firmware_version"
    /\ \E get_ret \in TransportResults, fw_ret \in TransportResults :
        LET r == rift_get_boot_mode([ret |-> get_ret,
                                     bootload |-> hw.boot_mode])
            fw == rift_get_firmware_version(fw_ret)
        IN  IF r.ret = RIFT_BOOT_NORMAL
            THEN /\ calls' = calls \o r.calls \o fw.calls
                 /\ steps' = steps \o
                        << [step |-> "boot_mode", ret |-> r.ret],
                           [step |-> "firmware_version", ret |-> fw.ret] >>
            ELSE /\ calls' = calls \o r.calls
                 /\ steps' = Append(steps,
                                    [step |-> "boot_mode", ret |-> r.ret])
    /\ pc' = "ranges"
    /\ UNCHANGED <<rift_type, active, flicker, leds_registered, num_points,
                   patterns, radio_pairing, blobwatch_flicker, hw, flash_i,
                   start_ret, last_op>>
    /\ UNCHANGED <<rateVars, decoderVars, workerVars, ledVars>>

\* rift.c:719-721
StartRanges ==
    /\ pc = "ranges"
    /\ \E get_ret \in TransportResults :
        StepDone("ranges", rift_get_ranges(get_ret), "imu_calibration")
    /\ UNCHANGED <<rift_type, active, flicker, leds_registered, num_points,
                   patterns, radio_pairing, blobwatch_flicker, hw, flash_i,
                   last_op>>
    /\ UNCHANGED <<rateVars, decoderVars, workerVars, ledVars>>

\* rift.c:723-725
StartImuCalibration ==
    /\ pc = "imu_calibration"
    /\ \E get_ret \in TransportResults :
        StepDone("imu_calibration", rift_get_imu_calibration(get_ret),
                 "positions")
    /\ UNCHANGED <<rift_type, active, flicker, leds_registered, num_points,
                   patterns, radio_pairing, blobwatch_flicker, hw, flash_i,
                   last_op>>
    /\ UNCHANGED <<rateVars, decoderVars, workerVars, ledVars>>

\* rift.c:727-731
StartPositions ==
    /\ pc = "positions"
    /\ \E fail_at \in 0..Len(hw.positions), err \in TransportErrors :
        \E r \in {rift_get_positions(
                     TableResponses(hw.positions, fail_at, err),
                     num_points)} :
            /\ StepDone("positions", [ret |-> r.ret, calls |-> r.calls],
                        IF IsCV1 THEN "read_flash" ELSE "led_patterns")
            /\ num_points' = r.num_points
            /\ points' = r.leds
            /\ position_reads' = r.reads
    /\ flash_i' = 0
    /\ UNCHANGED <<rift_type, active, flicker, leds_registered, patterns,
                   radio_pairing, blobwatch_flicker, hw, last_op>>
    /\ UNCHANGED <<rateVars, decoderVars, workerVars>>

\* unsigned char index[6], rift.c:734
FlashIndex == <<0, 5, 3, 4, 36, 33>>

\* rift.c:733-744: one iteration of the loop over the flash pages
StartReadFlash ==
    /\ pc = "read_flash"
    /\ \E mode_ret \in TransportResults, send_ret \in TransportResults,
          get_ret \in TransportResults :
        \E r \in {rift_read_flash(FlashIndex[flash_i + 1],
                                  [ret |-> mode_ret,
                                   bootload |-> hw.boot_mode],
                                  send_ret, get_ret)} :
            StepDone("read_flash", r,
                     IF flash_i + 1 = Len(FlashIndex) THEN "led_patterns"
                     ELSE "read_flash")
    /\ flash_i' = flash_i + 1
    /\ UNCHANGED <<rift_type, active, flicker, leds_registered, num_points,
                   patterns, radio_pairing, blobwatch_flicker, hw, last_op>>
    /\ UNCHANGED <<rateVars, decoderVars, workerVars, ledVars>>

\* rift.c:746-755
StartLedPatterns ==
    /\ pc = "led_patterns"
    /\ \E fail_at \in 0..Len(hw.led_patterns), err \in TransportErrors :
        \E r \in {rift_get_led_patterns(
                     TableResponses(hw.led_patterns, fail_at, err),
                     num_points, patterns)} :
            /\ StepDone("led_patterns", [ret |-> r.ret, calls |-> r.calls],
                        "get_config")
            /\ patterns' = r.patterns
    /\ UNCHANGED <<rift_type, active, flicker, leds_registered, num_points,
                   radio_pairing, blobwatch_flicker, hw, flash_i, last_op>>
    /\ UNCHANGED <<rateVars, decoderVars, workerVars, ledVars>>

\* the transport's answer to a read of the config report
ConfigResponse(get_ret) ==
    [ret |-> get_ret, sample_rate |-> hw.sample_rate,
     packet_interval |-> hw.packet_interval]

\* rift.c:757-759
StartGetConfig ==
    /\ pc = "get_config"
    /\ \E get_ret \in TransportResults :
        \E r \in {rift_get_config(ConfigResponse(get_ret))} :
            /\ StepDone("get_config", [ret |-> r.ret, calls |-> r.calls],
                        "set_report_rate")
            /\ report_rate' = IF r.stored THEN r.report_rate ELSE report_rate
            /\ report_interval' = IF r.stored THEN r.report_interval
                                  ELSE report_interval
    /\ UNCHANGED <<rift_type, active, flicker, leds_registered, num_points,
                   patterns, radio_pairing, blobwatch_flicker, hw, flash_i,
                   last_op>>
    /\ UNCHANGED <<decoderVars, workerVars, ledVars>>

\* the effect of rift_set_report_rate on the rift and on the device
ApplyReportRate(r) ==
    /\ report_rate' = IF r.stored THEN r.report_rate ELSE report_rate
    /\ report_interval' = IF r.stored THEN r.report_interval
                          ELSE report_interval
    /\ hw' = IF r.stored
             THEN [hw EXCEPT !.packet_interval = r.packet_interval]
             ELSE hw

\* rift.c:761-763
StartSetReportRate ==
    /\ pc = "set_report_rate"
    /\ \E get_ret \in TransportResults, send_ret \in TransportResults :
        \E r \in {rift_set_report_rate(1000, ConfigResponse(get_ret),
                                       send_ret)} :
            /\ StepDone("set_report_rate",
                        [ret |-> r.ret, calls |-> r.calls], "tracking")
            /\ ApplyReportRate(r)
    /\ UNCHANGED <<rift_type, active, flicker, leds_registered, num_points,
                   patterns, radio_pairing, blobwatch_flicker, flash_i,
                   last_op>>
    /\ UNCHANGED <<decoderVars, workerVars, ledVars>>

\* rift.c:765-767
StartTracking ==
    /\ pc = "tracking"
    /\ \E send_ret \in TransportResults :
        /\ StepDone("tracking", rift_send_tracking(TRUE, send_ret),
                    "display")
        /\ hw' = IF send_ret < 0 THEN hw
                 ELSE [hw EXCEPT !.tracking = FlickerMode(TRUE)]
    /\ UNCHANGED <<rift_type, active, flicker, leds_registered, num_points,
                   patterns, radio_pairing, blobwatch_flicker, flash_i,
                   last_op>>
    /\ UNCHANGED <<rateVars, decoderVars, workerVars, ledVars>>

\* rift.c:769-771
StartDisplay ==
    /\ pc = "display"
    /\ \E get_ret \in TransportResults, send_ret \in TransportResults :
        StepDone("display", rift_send_display(get_ret, send_ret),
                 IF IsCV1 THEN "power_up" ELSE "register_leds")
    /\ UNCHANGED <<rift_type, active, flicker, leds_registered, num_points,
                   patterns, radio_pairing, blobwatch_flicker, hw, flash_i,
                   last_op>>
    /\ UNCHANGED <<rateVars, decoderVars, workerVars, ledVars>>

\* rift.c:773-779
StartPowerUp ==
    /\ pc = "power_up"
    /\ \E get_ret \in TransportResults, send_ret \in TransportResults :
        StepDone("power_up", rift_cv1_power_up(get_ret, send_ret),
                 "register_leds")
    /\ UNCHANGED <<rift_type, active, flicker, leds_registered, num_points,
                   patterns, radio_pairing, blobwatch_flicker, hw, flash_i,
                   last_op>>
    /\ UNCHANGED <<rateVars, decoderVars, workerVars, ledVars>>

\* rift.c:781-783
StartRegisterLeds ==
    /\ pc = "register_leds"
    /\ calls' = Append(calls, Call("tracker_register_leds", "", 0,
                                   num_points, ""))
    /\ steps' = Append(steps, [step |-> "register_leds", ret |-> 0])
    /\ leds_registered' = TRUE
    /\ start_ret' = 0
    /\ pc' = "returned"
    /\ UNCHANGED <<rift_type, active, flicker, num_points, patterns,
                   radio_pairing, blobwatch_flicker, hw, flash_i, last_op>>
    /\ UNCHANGED <<rateVars, decoderVars, workerVars, ledVars>>

\* ouvrt_device_start after the start hook has returned: the device
\* becomes active, and its worker runs, only if the hook succeeded
DeviceStartReturn ==
    /\ pc = "returned"
    /\ pc' = "idle"
    /\ active' = (start_ret = 0)
    /\ last_op' = [last_op EXCEPT !.ret = start_ret]
    /\ IF start_ret = 0
       THEN /\ worker' = [pc |-> "entry", count |-> 0]
            /\ iteration' = NoIteration
            /\ since_keepalive' = -1
            /\ waits_inactive' = 0
            /\ stop_pc' = "none"
       ELSE UNCHANGED <<worker, iteration, since_keepalive, waits_inactive,
                        stop_pc>>
    /\ UNCHANGED <<rift_type, flicker, leds_registered, num_points, patterns,
                   radio_pairing, blobwatch_flicker, hw, flash_i, start_ret,
                   calls, steps>>
    /\ UNCHANGED <<hangup, radio, ids, first_id, reboot, boot_mode, fds,
                   tracker, reboot_recorded>>
    /\ UNCHANGED <<rateVars, decoderVars, ledVars>>

\* ouvrt_rift_set_flicker, rift.c:1017-1027, called between bring-ups
SetFlicker ==
    /\ pc = "idle"
    /\ \E new \in BOOLEAN, send_ret \in TransportResults :
        \E r \in {ouvrt_rift_set_flicker(flicker, active, new, send_ret)} :
            /\ flicker' = r.flicker
            /\ blobwatch_flicker' = IF r.broadcast THEN new
                                    ELSE blobwatch_flicker
            /\ calls' = r.calls
            /\ last_op' = Operation("ouvrt_rift_set_flicker", 0, new,
                                    flicker, 0)
            /\ hw' = IF \E i \in 1..Len(r.calls) :
                         r.calls[i].id = "TRACKING" /\ r.calls[i].ret >= 0
                     THEN [hw EXCEPT !.tracking = FlickerMode(new)]
                     ELSE hw
    /\ steps' = <<>>
    /\ UNCHANGED <<rift_type, active, leds_registered, num_points, patterns,
                   radio_pairing, pc, flash_i, start_ret>>
    /\ UNCHANGED <<rateVars, decoderVars, workerVars, ledVars>>

\* rift_set_report_rate called on its own, with any requested rate
RequestedRates == {-1, 0, 4, 5, 6, 50, 1000, 1001, 70000}

SetReportRate ==
    /\ pc = "idle"
    /\ \E requested \in RequestedRates, get_ret \in TransportResults,
          send_ret \in TransportResults :
        \E r \in {rift_set_report_rate(requested, ConfigResponse(get_ret),
                                       send_ret)} :
            /\ ApplyReportRate(r)
            /\ calls' = r.calls
            /\ last_op' = Operation("rift_set_report_rate", requested,
                                    FALSE, FALSE, r.ret)
    /\ steps' = <<>>
    /\ UNCHANGED <<rift_type, active, flicker, leds_registered, num_points,
                   patterns, radio_pairing, blobwatch_flicker, pc, flash_i,
                   start_ret>>
    /\ UNCHANGED <<decoderVars, workerVars, ledVars>>

\* rift_get_positions called on its own (the call at rift.c:727); a read
\* that fails fails with one of errs
GetPositions(errs) ==
    /\ pc = "idle"
    /\ \E fail_at \in 0..Len(hw.positions), err \in errs :
        \E r \in {rift_get_positions(
                     TableResponses(hw.positions, fail_at, err),
                     num_points)} :
            /\ num_points' = r.num_points
            /\ calls' = r.calls
            /\ points' = r.leds
            /\ position_reads' = r.reads
            /\ last_op' = Operation("rift_get_positions", 0, FALSE, FALSE,
                                    r.ret)
    /\ steps' = <<>>
    /\ UNCHANGED <<rift_type, active, flicker, leds_registered, patterns,
                   radio_pairing, blobwatch_flicker, hw, pc, flash_i,
                   start_ret>>
    /\ UNCHANGED <<rateVars, decoderVars, workerVars>>

\* rift_get_led_patterns called on its own (the call at rift.c:746); a
\* read that fails fails with one of errs
GetLedPatterns(errs) ==
    /\ pc = "idle"
    /\ \E fail_at \in 0..Len(hw.led_patterns), err \in errs :
        \E r \in {rift_get_led_patterns(
                     TableResponses(hw.led_patterns, fail_at, err),
                     num_points, patterns)} :
            /\ patterns' = r.patterns
            /\ calls' = r.calls
            /\ last_op' = Operation("rift_get_led_patterns", 0, FALSE, FALSE,
                                    r.ret)
    /\ steps' = <<>>
    /\ UNCHANGED <<rift_type, active, flicker, leds_registered, num_points,
                   radio_pairing, blobwatch_flicker, hw, pc, flash_i,
                   start_ret>>
    /\ UNCHANGED <<rateVars, decoderVars, workerVars, ledVars>>

\* the decoder before the first message (rift.c:977-984)
DecoderIdle ==
    /\ last_message_time = 0
    /\ last_sample_timestamp = 0
    /\ last_exposure_timestamp = 0
    /\ last_exposure_count = 0
    /\ crashed = FALSE
    /\ pre = [report_interval |-> 0, last_message_time |-> 0,
              last_sample_timestamp |-> 0, last_exposure_timestamp |-> 0,
              last_exposure_count |-> 0]
    /\ msg = [message |-> [num_samples |-> 0, timestamp |-> 0,
                           exposure_count |-> 0, exposure_timestamp |-> 0,
                           led_pattern_phase |-> 0],
              message_time |-> 0, prev_timestamp |-> 0,
              prev_accepted |-> FALSE, prev_sample_time |-> -1]
    /\ out = [samples |-> <<>>, exposures |-> <<>>, diag |-> NoDiagnostic,
              trap |-> FALSE]
    /\ nmsgs = 0
    /\ all_nominal = TRUE
    /\ accepted_run = 0

-----------------------------------------------------------------------------
(* Teardown and radio discovery: rift_stop, rift.c:879-916,
   rift_radio_start_discovery and rift_radio_stop_discovery, rift.c:918-954 *)

\* rift.c:483-497
rift_cv1_power_down(get_ret, send_ret) ==
    ReadModifyWrite("CV1_POWER", "down", get_ret, send_ret)

\* rift.c:902, rebooting whenever the flag is set
RebootRequested_AnyType(type, reb) == reb

\* rift.c:902: if (rift->type == RIFT_CV1 && rift->reboot)
RebootRequested(type, reb) == type = "RIFT_CV1" /\ reb

\* rift.c:879-916.  handles are dev->fds[0] and dev->fds[1], mode and reb the
\* boot target and the reboot request, sample_rate what the device answers
\* to the config read, ret[k] the result of the k-th transfer: power read
\* and write, tracking read and write, config read and write, bootload
\* write.  No result is looked at (rift.c:892, 897-899, 901, 912).
rift_stop(type, reb, mode, handles, sample_rate, ret) ==
    LET fd == handles[1]
        rate == rift_set_report_rate(50, [ret |-> ret[5],
                                          sample_rate |-> sample_rate],
                                     ret[6])
        rebooting == RebootRequested(type, reb)
    IN  [calls |->
            << Call("tracker_unregister_leds", "", 0, 0, ""),
               Call("g_clear_object", "tracker", 0, 0, "") >>
            \o (IF type = "RIFT_CV1"
                THEN rift_cv1_power_down(ret[1], ret[2]).calls
                ELSE <<>>)
            \o << GetFeature("TRACKING", ret[3], 0),
                  SendFeature("TRACKING", ret[4], 0, "off") >>
            \o rate.calls
            \o (IF rebooting
                THEN << Call("close", "fds[1]", 0, handles[2], ""),
                        SendFeature("BOOTLOAD", ret[7], mode, ""),
                        Call("close", "fd", 0, fd, "") >>
                ELSE <<>>),
         rate |-> rate,
         tracking_off |-> ret[4] >= 0,
         rebooted |-> rebooting /\ ret[7] >= 0,
         fds |-> IF rebooting THEN <<-1, -1>> ELSE handles]

\* rift.c:924-929 and 943-948, returning only when the read failed
DiscoveryNoOp_OnlyFailure(ret, target) == ret < 0

\* rift.c:924-929 and 943-948: the read failed, or the device is already in
\* the boot mode asked for
DiscoveryNoOp(ret, target) == ret < 0 \/ ret = target

\* rift.c:918-935 (target RIFT_BOOT_RADIO_PAIRING) and rift.c:937-954
\* (target RIFT_BOOT_NORMAL) up to the call of ouvrt_device_stop: get is the
\* transport's answer to the boot mode read
rift_radio_discovery(target, old_mode, old_reboot, get) ==
    LET boot == rift_get_boot_mode(get)
    IN  IF DiscoveryNoOp(boot.ret, target)
        THEN [ret |-> boot.ret, boot_mode |-> old_mode,
              reboot |-> old_reboot, stops |-> FALSE,
              calls |-> boot.calls]
        ELSE [ret |-> boot.ret, boot_mode |-> target, reboot |-> TRUE,
              stops |-> TRUE,
              calls |-> boot.calls
                        \o << Call("ouvrt_device_stop", "", 0, 0, "") >>]

-----------------------------------------------------------------------------
(* The worker and the operations invoked from outside it *)

\* the tables of a headset that starts
GoodPositionTable ==
    CHOOSE t \in PositionTables : t[1].num = 3 /\ t[2].index = 1
GoodPatternTable ==
    CHOOSE t \in PatternTables :
        t[1].pattern_length = 10 /\ t[2].pattern = 489335

\* the sample rate of the started headset (in Hz): the keepalive is due
\* after 9 * report_rate messages
WorkerSampleRate == 5

\* the state after a bring-up that succeeded (rift_start returned 0 and
\* ouvrt_device_start made the device active and created its worker)
DeviceStarted(types, modes, sample_rates) ==
    /\ rift_type \in types
    /\ active = TRUE
    /\ flicker = FALSE
    /\ leds_registered = TRUE
    /\ num_points = 2
    /\ patterns = rift_get_led_patterns(
                      TableResponses(GoodPatternTable, 0, 0), 2,
                      [i \in {} |-> 0]).patterns
    /\ blobwatch_flicker = FALSE
    /\ \E mode \in modes, sample_rate \in sample_rates :
        /\ radio_pairing = (rift_type = "RIFT_CV1"
                            /\ mode = RIFT_BOOT_RADIO_PAIRING)
        /\ hw = [boot_mode |-> IF rift_type = "RIFT_CV1" THEN mode
                               ELSE RIFT_BOOT_NORMAL,
                 sample_rate |-> sample_rate,
                 packet_interval |->
                    PacketInterval(sample_rate,
                                   ClampReportRate(1000, sample_rate)),
                 tracking |-> "blink",
                 positions |-> GoodPositionTable,
                 led_patterns |-> GoodPatternTable]
        /\ report_rate = ClampReportRate(1000, sample_rate)
        /\ report_interval = ReportInterval(ClampReportRate(1000, sample_rate))
    /\ pc = "idle"
    /\ flash_i = 0
    /\ start_ret = 0
    /\ last_op = Operation("none", 0, FALSE, FALSE, 0)
    /\ calls = <<>>
    /\ steps = <<>>
    /\ points = rift_get_positions(
                    TableResponses(GoodPositionTable, 0, 0), 0).leds
    /\ position_reads = Len(GoodPositionTable)
    /\ worker = [pc |-> "entry", count |-> 0]
    /\ iteration = NoIteration
    /\ since_keepalive = -1
    /\ waits_inactive = 0
    /\ hangup = {}
    /\ radio = [s \in {"remote", "touch0", "touch1"} |->
                   [active |-> FALSE, dev_id |-> 0, serial |-> ""]]
    /\ ids = [s \in {} |-> 0]
    /\ first_id = [s \in {"remote", "touch0", "touch1"} |-> 0]
    /\ reboot = FALSE
    /\ boot_mode = 0
    /\ fds = IF rift_type = "RIFT_CV1" THEN <<3, 4>> ELSE <<3, -1>>
    /\ stop_pc = "none"
    /\ tracker = "held"
    /\ reboot_recorded = FALSE

\* rift.c:797-800: the keepalive on entry, whose result is not looked at,
\* and count = 0.  since_keepalive is -1 until the first keepalive.
WorkerEntry ==
    /\ worker.pc = "entry"
    /\ worker' = [pc |-> "top", count |-> 0]
    /\ since_keepalive' = 0
    /\ iteration' = [NoIteration EXCEPT !.keepalive = TRUE]
    /\ UNCHANGED <<waits_inactive, hangup, radio, ids, first_id, reboot,
                   boot_mode, fds, stop_pc, tracker, reboot_recorded>>
    /\ UNCHANGED <<rateVars, decoderVars, deviceVars, ledVars>>

\* rift.c:802-810: the loop condition, then the worker waits in poll; after
\* the loop the function returns (rift.c:872-873)
WorkerCheck ==
    /\ worker.pc = "top"
    /\ worker' = [worker EXCEPT
                     !.pc = IF LoopCondition(active) THEN "wait"
                            ELSE "exited"]
    /\ UNCHANGED <<iteration, since_keepalive, waits_inactive, hangup, radio,
                   ids, first_id, reboot, boot_mode, fds, stop_pc,
                   tracker, reboot_recorded>>
    /\ UNCHANGED <<rateVars, decoderVars, deviceVars, ledVars>>

\* rift.c:810-871: poll returns and the iteration runs to its end.  The
\* sensor message read is the one the headset repeats, received at the time
\* of the message before; a valid radio report updates the three slots.
\* waits_inactive counts the waits that returned after active was cleared.
WorkerIteration(polls, main_reads, radio_reads) ==
    /\ worker.pc = "wait"
    /\ \E poll \in polls \cap PollResults(hangup, fds),
          main_read \in main_reads, radio_read \in radio_reads :
        \E it \in {rift_thread_iteration(poll, main_read, radio_read,
                                         worker.count, report_rate)} :
            /\ iteration' = [it EXCEPT !.requested =
                                IF it.radio_decoded
                                THEN ClaimLoop(1,
                                         rift_decode_radio_report(
                                             radio, radio_read.report),
                                         ids, <<>>).requested
                                ELSE <<>>]
            /\ worker' = [pc |-> IF it.exit THEN "exited" ELSE "top",
                          count |-> it.count_after]
            /\ since_keepalive' = IF it.keepalive THEN 0
                                  ELSE IF it.decoded THEN since_keepalive + 1
                                  ELSE since_keepalive
            /\ IF it.decoded
               THEN \E r \in {rift_decode_sensor_message(
                                 ClockState, RepeatedMessage(ClockState),
                                 SENSOR_MESSAGE_SIZE, last_message_time,
                                 "trap")} :
                       /\ last_message_time' = r.rift.last_message_time
                       /\ last_sample_timestamp' = r.rift.last_sample_timestamp
                       /\ last_exposure_timestamp' =
                              r.rift.last_exposure_timestamp
                       /\ last_exposure_count' = r.rift.last_exposure_count
                       /\ crashed' = r.trap
                       /\ pre' = ClockState
                       /\ msg' = [message |-> RepeatedMessage(ClockState),
                                  message_time |-> last_message_time,
                                  prev_timestamp |-> msg.message.timestamp,
                                  prev_accepted |-> out.samples # <<>>,
                                  prev_sample_time |->
                                     IF out.samples = <<>>
                                     THEN msg.prev_sample_time
                                     ELSE out.samples[Len(out.samples)].time]
                       /\ out' = [samples |-> r.samples,
                                  exposures |-> r.exposures,
                                  diag |-> r.diag, trap |-> r.trap]
                       /\ nmsgs' = IF nmsgs < MaxMessages THEN nmsgs + 1
                                   ELSE nmsgs
                       /\ all_nominal' = FALSE
                       /\ accepted_run' = IF r.samples = <<>> THEN 0
                                          ELSE IF accepted_run = 0 THEN 1
                                          ELSE 2
               ELSE UNCHANGED decoderVars
            /\ IF it.radio_decoded
               THEN \E c \in {ClaimLoop(1, rift_decode_radio_report(
                                               radio, radio_read.report),
                                        ids, <<>>)} :
                       /\ radio' = c.radio
                       /\ ids' = c.ids
                       /\ first_id' = [s \in DOMAIN first_id |->
                                          IF first_id[s] = 0
                                          THEN c.radio[s].dev_id
                                          ELSE first_id[s]]
               ELSE UNCHANGED <<radio, ids, first_id>>
    /\ waits_inactive' = IF active THEN waits_inactive
                         ELSE IF waits_inactive < 2 THEN waits_inactive + 1
                         ELSE 2
    /\ UNCHANGED <<hangup, reboot, boot_mode, fds, stop_pc, tracker,
                   reboot_recorded>>
    /\ UNCHANGED <<rateVars, deviceVars, ledVars>>

\* a handle of the open device enters an error or hangup condition (the
\* headset is unplugged, the radio interface goes away)
Hangup ==
    /\ worker.pc \in {"top", "wait"}
    /\ \E h \in {0, 1} \ hangup :
        /\ fds[h + 1] >= 0
        /\ hangup' = hangup \cup {h}
    /\ UNCHANGED <<worker, iteration, since_keepalive, waits_inactive, radio,
                   ids, first_id, reboot, boot_mode, fds, stop_pc,
                   tracker, reboot_recorded>>
    /\ UNCHANGED <<rateVars, decoderVars, deviceVars, ledVars>>

\* rift_thread has returned on its own: the device is seen as inactive
WorkerReturn ==
    /\ worker.pc = "exited"
    /\ stop_pc = "none"
    /\ worker' = [worker EXCEPT !.pc = "returned"]
    /\ active' = FALSE
    /\ UNCHANGED <<iteration, since_keepalive, waits_inactive, hangup, radio,
                   ids, first_id, reboot, boot_mode, fds, stop_pc,
                   tracker, reboot_recorded>>
    /\ UNCHANGED <<rift_type, flicker, leds_registered, num_points, patterns,
                   radio_pairing, blobwatch_flicker, hw, pc, flash_i,
                   start_ret, last_op, calls, steps>>
    /\ UNCHANGED <<rateVars, decoderVars, ledVars>>

\* ouvrt_device_stop up to the point where it waits for the worker: it
\* clears active, the only cancellation signal
DeviceStop ==
    /\ active
    /\ stop_pc = "none"
    /\ worker.pc \in {"entry", "top", "wait", "exited"}
    /\ active' = FALSE
    /\ stop_pc' = "joining"
    /\ last_op' = Operation("ouvrt_device_stop", 0, FALSE, active, 0)
    /\ calls' = <<>>
    /\ steps' = <<>>
    /\ UNCHANGED <<worker, iteration, since_keepalive, waits_inactive, hangup,
                   radio, ids, first_id, reboot, boot_mode, fds, tracker,
                   reboot_recorded>>
    /\ UNCHANGED <<rift_type, flicker, leds_registered, num_points, patterns,
                   radio_pairing, blobwatch_flicker, hw, pc, flash_i,
                   start_ret>>
    /\ UNCHANGED <<rateVars, decoderVars, ledVars>>

\* the results of the seven transfers of rift_stop: all succeed, one fails,
\* or all fail
StopResults(errs) ==
    {[k \in 1..7 |-> 0]}
    \cup {[k \in 1..7 |-> IF k = fail_at THEN err ELSE 0] :
             fail_at \in 1..7, err \in errs}
    \cup {[k \in 1..7 |-> err] : err \in errs}

\* ouvrt_device_stop once the worker has returned: the stop hook,
\* rift_stop (rift.c:879-916), runs on the caller's thread
DeviceStopJoined(errs) ==
    /\ stop_pc = "joining"
    /\ worker.pc = "exited"
    /\ \E ret \in StopResults(errs) :
        \E r \in {rift_stop(rift_type, reboot, boot_mode, fds,
                            hw.sample_rate, ret)} :
            /\ calls' = calls \o r.calls
            /\ fds' = r.fds
            /\ report_rate' = IF r.rate.stored THEN r.rate.report_rate
                              ELSE report_rate
            /\ report_interval' = IF r.rate.stored THEN r.rate.report_interval
                                  ELSE report_interval
            /\ hw' = [hw EXCEPT
                         !.tracking = IF r.tracking_off THEN "off" ELSE @,
                         !.packet_interval =
                             IF r.rate.stored THEN r.rate.packet_interval
                             ELSE @,
                         !.boot_mode = IF r.rebooted THEN boot_mode ELSE @]
    /\ leds_registered' = FALSE
    /\ stop_pc' = "stopped"
    /\ tracker' = "released"
    /\ reboot_recorded' = FALSE
    /\ worker' = [worker EXCEPT !.pc = "joined"]
    /\ UNCHANGED <<iteration, since_keepalive, waits_inactive, hangup, radio,
                   ids, first_id, reboot, boot_mode>>
    /\ UNCHANGED <<rift_type, active, flicker, num_points, patterns,
                   radio_pairing, blobwatch_flicker, pc, flash_i, start_ret,
                   last_op, steps>>
    /\ UNCHANGED <<decoderVars, ledVars>>

\* rift_radio_start_discovery and rift_radio_stop_discovery, invoked from
\* outside the worker on a device that is open.  last_op records the target
\* (num), whether a reboot was recorded (on), whether the device was active
\* when the operation began (was) and the result of the boot mode read.
\* ouvrt_device_stop does nothing on a device that is not active.
RadioDiscovery(name, target, errs) ==
    /\ stop_pc # "joining"
    /\ fds[1] >= 0
    /\ \E get_ret \in {0} \cup errs :
        \E r \in {rift_radio_discovery(
                     target, boot_mode, reboot,
                     [ret |-> get_ret, bootload |-> hw.boot_mode])} :
            /\ boot_mode' = r.boot_mode
            /\ reboot' = r.reboot
            /\ calls' = r.calls
            /\ last_op' = Operation(name, target, r.stops, active, r.ret)
            /\ active' = IF r.stops THEN FALSE ELSE active
            /\ stop_pc' = IF r.stops /\ active THEN "joining" ELSE stop_pc
            /\ reboot_recorded' = (r.stops \/ reboot_recorded)
    /\ steps' = <<>>
    /\ UNCHANGED <<worker, iteration, since_keepalive, waits_inactive, hangup,
                   radio, ids, first_id, fds, tracker>>
    /\ UNCHANGED <<rift_type, flicker, leds_registered, num_points, patterns,
                   radio_pairing, blobwatch_flicker, hw, pc, flash_i,
                   start_ret>>
    /\ UNCHANGED <<rateVars, decoderVars, ledVars>>

RadioStartDiscovery(errs) ==
    RadioDiscovery("rift_radio_start_discovery", RIFT_BOOT_RADIO_PAIRING,
                   errs)

RadioStopDiscovery(errs) ==
    RadioDiscovery("rift_radio_stop_discovery", RIFT_BOOT_NORMAL, errs)

\* the open hook of the device on an object whose handles rift_stop has
\* closed (rift.c:909-914): the headset has come back after its reboot and
\* the handles are acquired again; no field of struct _OuvrtRift is written
DeviceOpen ==
    /\ ~active
    /\ pc = "idle"
    /\ stop_pc # "joining"
    /\ fds[1] < 0
    /\ fds' = IF rift_type = "RIFT_CV1" THEN <<3, 4>> ELSE <<3, -1>>
    /\ last_op' = Operation("ouvrt_device_open", 0, FALSE, FALSE, 0)
    /\ calls' = <<>>
    /\ steps' = <<>>
    /\ UNCHANGED <<worker, iteration, since_keepalive, waits_inactive, hangup,
                   radio, ids, first_id, reboot, boot_mode, stop_pc, tracker,
                   reboot_recorded>>
    /\ UNCHANGED <<rift_type, active, flicker, leds_registered, num_points,
                   patterns, radio_pairing, blobwatch_flicker, hw, pc,
                   flash_i, start_ret>>
    /\ UNCHANGED <<rateVars, decoderVars, ledVars>>

-----------------------------------------------------------------------------
(* Specifications *)

\* sample rates a device reports at bring-up (the Rift samples at 1000 Hz)
BringUpSampleRates == {500, 1000}

\* the device state machine: bring-up of both generations, flicker toggles
Init ==
    /\ DeviceInitWith({"RIFT_DK2", "RIFT_CV1"}, BootModes,
                      BringUpSampleRates, PositionTables, PatternTables)
    /\ report_rate = 0
    /\ report_interval = 0
    /\ DecoderIdle

Next ==
    \/ DeviceStart
    \/ StartBootMode
    \/ StartRadioAddress
    \/ StartUuid
    \/ StartFirmwareVersion
    \/ StartRanges
    \/ StartImuCalibration
    \/ StartPositions
    \/ StartReadFlash
    \/ StartLedPatterns
    \/ StartGetConfig
    \/ StartSetReportRate
    \/ StartTracking
    \/ StartDisplay
    \/ StartPowerUp
    \/ StartRegisterLeds
    \/ DeviceStartReturn
    \/ SetFlicker

Spec == Init /\ [][Next]_vars

\* the decoder of a started device: the report rate is the one rift_start
\* has set with rift_set_report_rate(rift, 1000) (rift.c:761)
DecoderInit ==
    /\ DeviceInitWith({"RIFT_DK2"}, {RIFT_BOOT_NORMAL}, BringUpSampleRates,
                      {GoodPositionTable}, {GoodPatternTable})
    /\ report_rate = ClampReportRate(1000, hw.sample_rate)
    /\ report_interval = ReportInterval(ClampReportRate(1000, hw.sample_rate))
    /\ DecoderIdle

\* timing anomalies, exposures 250 us before the sample
DecoderNext == SensorMessage(NumSamplesValues, TimingKinds, {250}, {1000})
SpecDecoder == DecoderInit /\ [][DecoderNext]_vars

\* messages of one or two samples, nominal timing and jitter inside the
\* window, exposures before and after the sample, two arrival intervals
ExposureNext ==
    SensorMessage({1, 2}, {"nominal", "late"}, {0, 250, 1500, -1, -250},
                  {1000, 1100})
SpecExposure == DecoderInit /\ [][ExposureNext]_vars

\* sample rates a config report can hold (a 16 bit field)
SampleRates == {0, 3, 5, 6, 500, 1000, 2000, 65535}

\* rift_set_report_rate as a function of the requested rate and the
\* device's sample rate
RateInit ==
    /\ DeviceInitWith({"RIFT_DK2", "RIFT_CV1"}, {RIFT_BOOT_NORMAL},
                      SampleRates,
                      {GoodPositionTable}, {GoodPatternTable})
    /\ report_rate = 0
    /\ report_interval = 0
    /\ DecoderIdle

RateNext == SetReportRate
SpecRate == RateInit /\ [][RateNext]_vars

\* every value poll can return
Polls ==
    {[ret |-> n, main |-> m, radio |-> r] :
        n \in -1..2, m \in {"none", "in", "err"},
        r \in {"none", "in", "err"}}

\* reads of the radio handle that yield no valid report
BadRadioReads == {r \in RadioReads : r.kind # "report"}

\* the worker of a started headset of either generation: every outcome of
\* the wait and of the read of a sensor message, handles that hang up, and
\* the stop of the device
WorkerInit ==
    /\ DeviceStarted({"RIFT_DK2", "RIFT_CV1"}, {RIFT_BOOT_NORMAL},
                     {WorkerSampleRate})
    /\ DecoderIdle

WorkerNext ==
    \/ WorkerEntry
    \/ WorkerCheck
    \/ WorkerIteration(Polls, MainReads, BadRadioReads)
    \/ Hangup
    \/ WorkerReturn
    \/ DeviceStop
    \/ DeviceStopJoined({-5})

SpecWorker == WorkerInit /\ [][WorkerNext]_vars

\* the worker is a thread the scheduler keeps running: poll returns within
\* its timeout and the transfers return, so that each of its steps is
\* eventually taken, as is the return of the thread routine
WorkerStep ==
    \/ WorkerEntry
    \/ WorkerCheck
    \/ WorkerIteration(Polls, MainReads, BadRadioReads)
    \/ WorkerReturn

SpecWorkerFair == SpecWorker /\ WF_vars(WorkerStep)

\* the radio side of the worker of a CV1: waits that time out or find the
\* radio handle readable, every radio report
RadioPolls == {p \in Polls : p.main = "none" /\ p.radio # "err"}

RadioInit ==
    /\ DeviceStarted({"RIFT_CV1"}, {RIFT_BOOT_NORMAL}, {WorkerSampleRate})
    /\ DecoderIdle

RadioNext ==
    \/ WorkerEntry
    \/ WorkerCheck
    \/ WorkerIteration(RadioPolls, {"message"}, RadioReads)

SpecRadio == RadioInit /\ [][RadioNext]_vars

\* a started headset of either generation, in any boot mode the bring-up
\* accepts, whose worker only sees waits that time out; from outside the
\* worker come flicker toggles, radio discovery and the stop of the device
TeardownPolls == {p \in Polls : p.ret = 0}

TeardownInit ==
    /\ DeviceStarted({"RIFT_DK2", "RIFT_CV1"},
                     {RIFT_BOOT_NORMAL, RIFT_BOOT_BOOTLOADER,
                      RIFT_BOOT_RADIO_PAIRING},
                     {1000})
    /\ DecoderIdle

TeardownNext ==
    \/ WorkerEntry
    \/ WorkerCheck
    \/ WorkerIteration(TeardownPolls, {"message"}, BadRadioReads)
    \/ (stop_pc # "joining" /\ SetFlicker)
    \/ RadioStartDiscovery({-5})
    \/ RadioStopDiscovery({-5})
    \/ DeviceStop
    \/ DeviceStopJoined({-5})

SpecTeardown == TeardownInit /\ [][TeardownNext]_vars

\* position tables of one to three reports, which the headset steps
\* through cyclically: any count the driver accepts or refuses, any index
\* up to the count, LED and IMU entries in any order
PositionCounts == {0, 1, 2, 3, 45, 46}
PositionIndices == {0, 1, 2, 44, 45}
PositionEntries(num) ==
    [num : {num}, index : PositionIndices, type : {"LED", "IMU"}]
PositionTestTables ==
    UNION {{<<a>> : a \in PositionEntries(num)}
           \cup {<<a, b>> : a \in PositionEntries(num),
                            b \in PositionEntries(num)}
           \cup {<<a, b, c>> : a \in PositionEntries(num),
                               b \in PositionEntries(num),
                               c \in PositionEntries(num)} :
           num \in PositionCounts}

PositionsInit ==
    /\ DeviceInitWith({"RIFT_DK2"}, {RIFT_BOOT_NORMAL}, {1000},
                      PositionTestTables, {GoodPatternTable})
    /\ report_rate = 0
    /\ report_interval = 0
    /\ DecoderIdle

PositionsNext == GetPositions({-5})

SpecPositions == PositionsInit /\ [][PositionsNext]_vars

\* the life of one device object of either generation: bring-up, worker,
\* discovery toggles, stop, re-open after a reboot, and bring-up again
LifecycleInit ==
    /\ DeviceInitWith({"RIFT_DK2", "RIFT_CV1"}, {RIFT_BOOT_NORMAL}, {1000},
                      {GoodPositionTable}, {GoodPatternTable})
    /\ report_rate = 0
    /\ report_interval = 0
    /\ DecoderIdle

LifecycleNext ==
    \/ DeviceOpen
    \/ DeviceStart
    \/ StartBootMode
    \/ StartRadioAddress
    \/ StartUuid
    \/ StartFirmwareVersion
    \/ StartRanges
    \/ StartImuCalibration
    \/ StartPositions
    \/ StartReadFlash
    \/ StartLedPatterns
    \/ StartGetConfig
    \/ StartSetReportRate
    \/ StartTracking
    \/ StartDisplay
    \/ StartPowerUp
    \/ StartRegisterLeds
    \/ DeviceStartReturn
    \/ WorkerEntry
    \/ WorkerCheck
    \/ WorkerIteration(TeardownPolls, {"message"}, BadRadioReads)
    \/ (pc = "idle" /\ RadioStartDiscovery({-5}))
    \/ (pc = "idle" /\ RadioStopDiscovery({-5}))
    \/ DeviceStop
    \/ DeviceStopJoined({-5})

SpecLifecycle == LifecycleInit /\ [][LifecycleNext]_vars

\* the pattern word of ten 2-bit symbols that encodes the ten bits of b
RECURSIVE SymbolWord(_, _)
SymbolWord(b, n) ==
    IF n = 0 THEN 0
    ELSE (IF b % 2 = 1 THEN 3 ELSE 1) + 4 * SymbolWord(b \div 2, n - 1)

\* word with the 2-bit symbol i replaced by v
WithSymbol(word, i, v) ==
    word - ((word \div Pow2(2 * i)) % 4) * Pow2(2 * i) + v * Pow2(2 * i)

\* pattern reports a device can send (words below 2^31): every well-formed
\* word with length 10; words with a symbol that is 0 or 2, words with a
\* bit above bit 19 and well-formed words, each with lengths around 10
PatternBaseWords == {SymbolWord(b, 10) : b \in {0, 1023, 682, 1}}
PatternLengths == {0, 9, 10, 11, 20}
WellFormedReports ==
    {[pattern |-> SymbolWord(b, 10), pattern_length |-> 10] : b \in 0..1023}
OtherReports ==
    {[pattern |-> w, pattern_length |-> l] :
        w \in PatternBaseWords
              \cup {WithSymbol(base, i, v) :
                        base \in PatternBaseWords, i \in 0..9, v \in {0, 2}}
              \cup {base + Pow2(bit) :
                        base \in PatternBaseWords, bit \in {20, 24, 30}},
        l \in PatternLengths}

\* pattern tables of two entries: the report under test first or second,
\* next to a well-formed one
PatternTestTables ==
    { << [num |-> 2, index |-> 0] @@ report,
         [num |-> 2, index |-> 1, pattern_length |-> 10,
          pattern |-> 489335] >> :
      report \in WellFormedReports \cup OtherReports }
    \cup
    { << [num |-> 2, index |-> 0, pattern_length |-> 10,
          pattern |-> 489335],
         [num |-> 2, index |-> 1] @@ report >> :
      report \in OtherReports }

\* rift_get_led_patterns as a function of the reports the device sends,
\* before and after the positions have been read
PatternsInit ==
    /\ DeviceInitWith({"RIFT_DK2"}, {RIFT_BOOT_NORMAL}, {1000},
                      {GoodPositionTable}, PatternTestTables)
    /\ report_rate = 0
    /\ report_interval = 0
    /\ DecoderIdle

PatternsNext ==
    \/ GetPositions({-5})
    \/ GetLedPatterns({-5})

SpecPatterns == PatternsInit /\ [][PatternsNext]_vars

-----------------------------------------------------------------------------
(* Properties of the sensor message decoder *)

\* the last message's dt as the specification defines it: sample timestamp
\* minus last sample timestamp, wrapping, read as a signed word
MsgDt == ToI32(msg.message.timestamp - pre.last_sample_timestamp)
MsgNum == msg.message.num_samples
MsgInWindow ==
    /\ MsgNum * report_interval - 75 <= MsgDt
    /\ MsgDt <= MsgNum * report_interval + 75
MsgNewExposure == msg.message.exposure_count # pre.last_exposure_count

\* C1: samples are forwarded and the exposure logic runs if and only if dt
\* lies within num_samples*report_interval +- 75; outside the window no
\* sample, no pose and no exposure notification is emitted.
C1_WindowGatesOutput ==
    nmsgs > 0 =>
        /\ (out.samples # <<>>) <=> MsgInWindow
        /\ (out.exposures # <<>> \/ out.trap)
               <=> (MsgInWindow /\ MsgNewExposure)
        /\ ~MsgInWindow => (out.samples = <<>> /\ out.exposures = <<>>)

\* a message at the upper edge of the window, across the wrap of the
\* hardware timestamp, was accepted and its new exposure reported
C1_Witness ==
    /\ nmsgs > 0
    /\ MsgDt = MsgNum * report_interval + 75
    /\ msg.message.timestamp < ToU32(pre.last_sample_timestamp)
    /\ Len(out.samples) = 2
    /\ out.exposures # <<>>

\* C2 as claimed: in a run of messages with dt = num_samples*I each, every
\* message (that carries at least one sample) emits exactly num_samples
\* samples and no diagnostic.
C2_Original ==
    (nmsgs > 0 /\ all_nominal /\ MsgNum >= 1) =>
        /\ Len(out.samples) = MsgNum
        /\ out.diag.kind = "none"

\* C2 amended: in a run of messages with dt = num_samples*I each, every
\* message emits exactly two samples if num_samples > 1 and one sample
\* otherwise, and no gap/jitter/loss diagnostic.
C2_NominalRunEmits ==
    (nmsgs > 0 /\ all_nominal) =>
        /\ MsgDt = MsgNum * report_interval
        /\ Len(out.samples) = (IF MsgNum > 1 THEN 2 ELSE 1)
        /\ out.diag.kind = "none"

C2_Witness ==
    /\ nmsgs >= 2
    /\ all_nominal
    /\ MsgNum = 2
    /\ pre.last_sample_timestamp > 0
    /\ Len(out.samples) = 2

\* C3 as claimed: any message (that carries at least one sample) with
\* dt = I*(num_samples+5) is reported as a loss of exactly 5 samples and
\* emits no sample.
C3_Original ==
    (nmsgs > 0 /\ MsgNum >= 1 /\ MsgDt = report_interval * (MsgNum + 5)) =>
        /\ out.samples = <<>>
        /\ out.diag = [kind |-> "lost", lost |-> 5]

\* C3 amended: a message with dt = I*(num_samples+5) emits no sample; it
\* is reported as a loss of exactly 5 samples when the unwrapped sample
\* clock was not 0 before the message, and is dropped without any
\* diagnostic when it was 0 (the first message after initialisation).
C3_LossOfFive ==
    (nmsgs > 0 /\ MsgDt = report_interval * (MsgNum + 5)) =>
        /\ out.samples = <<>>
        /\ pre.last_sample_timestamp # 0
               => out.diag = [kind |-> "lost", lost |-> 5]
        /\ pre.last_sample_timestamp = 0 => out.diag.kind = "none"

C3_Witness ==
    /\ nmsgs > 1
    /\ MsgDt = report_interval * (MsgNum + 5)
    /\ MsgNum = 2
    /\ pre.last_sample_timestamp # 0
    /\ out.diag = [kind |-> "lost", lost |-> 5]

\* C10 as claimed: a message (that carries at least one sample) outside
\* the window changes last_message_time only.
C10_Original ==
    (nmsgs > 0 /\ MsgNum >= 1 /\ ~MsgInWindow) =>
        /\ last_sample_timestamp = pre.last_sample_timestamp
        /\ last_exposure_timestamp = pre.last_exposure_timestamp
        /\ last_exposure_count = pre.last_exposure_count

\* C10 amended: a message outside the window changes last_message_time and
\* advances last_sample_timestamp by dt; last_exposure_timestamp and
\* last_exposure_count are left unchanged.
C10_RejectedFrame ==
    (nmsgs > 0 /\ ~MsgInWindow) =>
        /\ last_message_time = msg.message_time
        /\ last_sample_timestamp = ToU64(pre.last_sample_timestamp + MsgDt)
        /\ last_exposure_timestamp = pre.last_exposure_timestamp
        /\ last_exposure_count = pre.last_exposure_count
        /\ ~crashed

C10_Witness ==
    /\ nmsgs > 1
    /\ ~MsgInWindow
    /\ MsgNewExposure
    /\ pre.last_exposure_count # 0
    /\ last_exposure_count = pre.last_exposure_count
    /\ last_sample_timestamp # pre.last_sample_timestamp

\* C integer division (truncation toward zero) of mathematical integers
TruncDiv(a, b) ==
    LET abs(x) == IF x < 0 THEN 0 - x ELSE x
        q == abs(a) \div abs(b)
    IN  IF (a < 0) = (b < 0) THEN q ELSE 0 - q

\* the interpolated exposure time T1 - (T1-T0)*k/dt of the last message
MsgExposureK == ToI32(msg.message.timestamp - msg.message.exposure_timestamp)
InterpolatedExposureTime ==
    ToU64(msg.message_time -
          TruncDiv((msg.message_time - pre.last_message_time) * MsgExposureK,
                   MsgDt))

\* C4: for two consecutive accepted messages at T0 and T1, a new exposure
\* is reported at T1 - (T1-T0)*k/dt exactly, for every k (also negative).
C4_ExposureInterpolation ==
    (accepted_run = 2 /\ out.exposures # <<>> /\ MsgDt # 0) =>
        out.exposures[1].exposure_time = InterpolatedExposureTime

\* the same, for exposures that are not later than the sample
C4_ExposureBeforeSample ==
    (accepted_run = 2 /\ out.exposures # <<>> /\ MsgDt > 0
        /\ MsgExposureK >= 0) =>
        out.exposures[1].exposure_time = InterpolatedExposureTime

-----------------------------------------------------------------------------
(* Properties of the report codec *)

RateCallSucceeded ==
    last_op.name = "rift_set_report_rate" /\ last_op.ret = 0

Symbol(word, i) == (word \div Pow2(2 * i)) % 4

WellFormedWord(word) ==
    /\ word < Pow2(20)
    /\ \A i \in 0..9 : Symbol(word, i) \in {1, 3}

RECURSIVE BrightBits(_, _)
BrightBits(word, n) ==
    IF n = 0 THEN 0
    ELSE (IF word % 4 = 3 THEN 1 ELSE 0) + 2 * BrightBits(word \div 4, n - 1)

WellFormedEntry(entry) ==
    entry.pattern_length = 10 /\ WellFormedWord(entry.pattern)

\* the j-th entry of the device's pattern table has been read and examined
\* by the last rift_get_led_patterns
PatternExamined(j) ==
    /\ last_op.name = "rift_get_led_patterns"
    /\ j <= Len(calls)
    /\ calls[j].ret >= 0
    /\ hw.led_patterns[1].num <= num_points
    /\ \A i \in 1..(j - 1) : WellFormedEntry(hw.led_patterns[i])

\* C6: for every pattern report rift_get_led_patterns examines: if
\* pattern_length is 10 and the word is ten 2-bit symbols that are 1 or 3
\* with no bit above bit 19, the pattern stored for the entry is the 10
\* bit value whose bit i is 1 exactly when symbol i is 3; otherwise the
\* operation fails and nothing is stored for the entry.
C6_LedPatternDecoding ==
    \A j \in 1..2 :
        PatternExamined(j) =>
            LET entry == hw.led_patterns[j]
            IN  IF WellFormedEntry(entry)
                THEN /\ entry.index \in DOMAIN patterns
                     /\ patterns[entry.index] = BrightBits(entry.pattern, 10)
                     /\ patterns[entry.index] \in 0..1023
                ELSE /\ last_op.ret = -1
                     /\ entry.index \notin DOMAIN patterns

\* a word with bright and dark symbols has been stored, and a malformed
\* second entry has failed the operation
C6_Witness ==
    /\ PatternExamined(2)
    /\ hw.led_patterns[1].pattern = 489335
    /\ patterns[0] = 1023 - 682
    /\ ~WellFormedWord(hw.led_patterns[2].pattern)
    /\ hw.led_patterns[2].pattern_length = 10
    /\ last_op.ret = -1
    /\ DOMAIN patterns = {0}

-----------------------------------------------------------------------------
(* Properties of the bring-up *)

InStart == last_op.name = "rift_start"
StartOver == pc \in {"returned", "idle"}

\* the first position report of this rift_start has been read and reports
\* more than 45 positions: it is call i
TooManyPositionsRead(i) ==
    /\ InStart
    /\ i \in 1..Len(calls)
    /\ calls[i].id = "POSITION"
    /\ \A k \in 1..(i - 1) : calls[k].id # "POSITION"
    /\ calls[i].ret >= 0
    /\ calls[i].num > 45

\* C7: when the first position report read during rift_start reports
\* num > 45, rift_start fails with an error, that read is the last call it
\* makes, and the LED model is not registered with the tracker.
C7_TooManyPositions ==
    \A i \in 1..Len(calls) :
        TooManyPositionsRead(i) =>
            /\ i = Len(calls)
            /\ StartOver
            /\ start_ret < 0
            /\ ~leds_registered
            /\ ~active

\* rift_start of a CV1 has returned after such a report
C7_Witness ==
    /\ TooManyPositionsRead(Len(calls))
    /\ IsCV1
    /\ pc = "idle"
    /\ last_op.ret = -1
    /\ steps[Len(steps)].step = "positions"

FlickerCalled == last_op.name = "ouvrt_rift_set_flicker"

TrackingCalls == {i \in 1..Len(calls) : calls[i].id = "TRACKING"}
TransportCalls ==
    {i \in 1..Len(calls) :
        calls[i].op \in {"get_feature_report", "send_feature_report"}}
BroadcastCalls ==
    {i \in 1..Len(calls) : calls[i].op = "blobwatch_set_flicker"}

\* what a call that takes effect does
FlickerEffect ==
    /\ flicker = last_op.on
    /\ Cardinality(BroadcastCalls) = 1
    /\ \A i \in BroadcastCalls : calls[i].mode = FlickerMode(last_op.on)
    /\ blobwatch_flicker = last_op.on
    /\ ~active => TransportCalls = {}
    /\ active =>
        /\ Cardinality(TransportCalls) = 1
        /\ TransportCalls = TrackingCalls
        /\ \A i \in TrackingCalls : calls[i].mode = FlickerMode(last_op.on)

\* C8 as stated: ouvrt_rift_set_flicker always updates the stored flag and
\* calls the flicker broadcast; inactive it makes no transport call, active
\* exactly one tracking-enable call carrying the new mode.
C8_Original == FlickerCalled => FlickerEffect

\* C8: a call of ouvrt_rift_set_flicker whose argument differs from the
\* stored flag updates the flag and calls the flicker broadcast whatever
\* the device state, makes no transport call when the device is inactive
\* and exactly one tracking-enable call carrying the new mode when it is
\* active; a call whose argument equals the stored flag does nothing.
C8_FlickerToggle ==
    FlickerCalled =>
        IF last_op.on # last_op.was
        THEN FlickerEffect
        ELSE calls = <<>> /\ flicker = last_op.was

\* the flag has been changed on an active device
C8_Witness ==
    /\ FlickerCalled
    /\ active
    /\ last_op.on # last_op.was
    /\ Cardinality(TrackingCalls) = 1

\* the flag has been changed on an inactive device
C8_WitnessInactive ==
    /\ FlickerCalled
    /\ ~active
    /\ last_op.on # last_op.was
    /\ Len(calls) = 1

\* the steps of rift_start whose result is not checked
UncheckedSteps == {"boot_mode", "firmware_version"}

C9_WitnessStarted ==
    /\ InStart
    /\ IsCV1
    /\ active
    /\ leds_registered
    /\ steps[1] = [step |-> "boot_mode", ret |-> -5]

-----------------------------------------------------------------------------
(* Properties of the sample clock *)

\* C11: over any sequence of sensor messages whose dt falls inside the
\* accepted window num_samples * report_interval +- 75, the unwrapped
\* sample clock last_sample_timestamp never decreases, for every
\* num_samples a message can carry and across wraps of the hardware
\* timestamp.
C11_ClockNeverDecreases ==
    (nmsgs >= 1 /\ MsgInWindow) =>
        last_sample_timestamp >= pre.last_sample_timestamp

\* for messages that carry at least one sample, as long as the unwrapped
\* clock itself does not wrap, the clock advances by dt > 0
C11_ClockAdvances ==
    (nmsgs >= 1 /\ MsgInWindow /\ MsgNum >= 1
     /\ pre.last_sample_timestamp + MsgDt < UINT64_MOD) =>
        /\ MsgDt > 0
        /\ last_sample_timestamp = pre.last_sample_timestamp + MsgDt

\* the message follows a message the gate rejected and lies
\* num_samples * report_interval +- 75 after it on the hardware clock
FollowsRejected ==
    /\ nmsgs >= 2
    /\ ~msg.prev_accepted
    /\ LET d == ToI32(msg.message.timestamp - msg.prev_timestamp)
       IN  /\ d >= MsgNum * pre.report_interval - 75
           /\ d <= MsgNum * pre.report_interval + 75

\* C19: a message that follows a rejected message with sample timestamp t
\* and has sample timestamp t + num_samples * report_interval (+- 75,
\* wrapping) is accepted and emits its samples without a diagnostic; a
\* rejected message does not end the worker.
C19_Resynchronises ==
    /\ FollowsRejected =>
        /\ Len(out.samples) = (IF MsgNum > 1 THEN 2 ELSE 1)
        /\ out.diag = NoDiagnostic
    /\ (nmsgs >= 1 /\ ~MsgInWindow) =>
        /\ out.samples = <<>>
        /\ ~out.trap
        /\ ~crashed

\* two samples emitted right after a message reported as sample loss
C19_Witness ==
    /\ FollowsRejected
    /\ MsgNum = 2
    /\ Len(out.samples) = 2
    /\ nmsgs = 3
    /\ msg.prev_sample_time >= 0

\* C20: over any sequence of accepted messages the times of the emitted
\* IMU samples are non-decreasing, including across a wrap of the hardware
\* sample timestamp (messages that advance the hardware clock).
C20_SampleTimesMonotonic ==
    (nmsgs >= 2 /\ accepted_run = 2 /\ MsgDt > 0) =>
        \A i \in 1..Len(out.samples) :
            out.samples[i].time >= msg.prev_sample_time

\* the emitted time is the hardware timestamp of the message, not the
\* unwrapped clock
C20_TimeIsHardwareTimestamp ==
    \A i \in 1..Len(out.samples) :
        out.samples[i].time = msg.message.timestamp

-----------------------------------------------------------------------------
(* Properties of the worker loop *)

WorkerAlive == worker.pc \in {"top", "wait", "exited"}

\* C12: a keepalive is sent before the first wait; a wait that times out,
\* fails, or finds more than 9 * report_rate sensor messages counted since
\* the last keepalive is followed by a keepalive and the count is back at 0;
\* never have more than 9 * report_rate + 1 sensor messages been decoded
\* since the most recent keepalive.
C12_Keepalive ==
    /\ worker.pc # "entry" => since_keepalive >= 0
    /\ (iteration.polled
        /\ (iteration.ret = -1 \/ iteration.ret = 0
            \/ iteration.count_before > 9 * report_rate)) =>
            /\ iteration.keepalive
            /\ ~iteration.decoded /\ ~iteration.exit
            /\ iteration.count_after = 0
            /\ since_keepalive = 0
    /\ WorkerAlive => /\ since_keepalive <= 9 * report_rate + 1
                      /\ worker.count = since_keepalive

\* the count has passed 9 * report_rate and the next wait, which found
\* data, was answered by a keepalive
C12_Witness ==
    /\ iteration.polled /\ iteration.ret > 0
    /\ iteration.count_before = 9 * report_rate + 1
    /\ iteration.keepalive /\ worker.count = 0

WorkerRunning == worker.pc \in {"entry", "top", "wait"}

HangupReported ==
    iteration.polled /\ (iteration.main = "err" \/ iteration.radio = "err")

\* C13: a wait that reports an error, hangup or invalid condition on the
\* main or the radio handle is followed by no read and no decoding; unless
\* the keepalive was due, the loop exits at once, else at the next wait;
\* after the loop has exited the device becomes inactive.
C13_HangupExits ==
    /\ [](HangupReported =>
             /\ ~iteration.decoded /\ ~iteration.radio_decoded
             /\ iteration.main_read = "" /\ iteration.radio_read = ""
             /\ iteration.exit = ~iteration.keepalive
             /\ iteration.exit => ~WorkerRunning)
    /\ [](worker.pc \in {"returned", "joined"} => ~active)
    /\ ((worker.pc = "wait" /\ hangup # {}) ~> (~WorkerRunning /\ ~active))

\* the radio handle of a CV1 hung up while the main handle was readable:
\* the loop has exited, nobody had asked for a stop, the device is inactive
C13_Witness ==
    /\ iteration.exit /\ iteration.radio = "err" /\ iteration.main = "in"
    /\ worker.pc = "returned" /\ ~active /\ last_op.name = "none"

\* C17: once active is cleared at most one more wait returns, whatever ends
\* the iteration (keepalive, failed or short read, invalid radio report,
\* decoded message), and the worker leaves the loop.
C17_StopsAfterOneWait ==
    /\ [](waits_inactive <= 1)
    /\ (~active ~> ~WorkerRunning)

\* the stop was asked for during a wait that ended with a failed read; the
\* worker has left the loop and the caller of the stop is still waiting
C17_Witness ==
    /\ waits_inactive = 1 /\ iteration.main_read = "error"
    /\ worker.pc = "exited" /\ stop_pc = "joining"

-----------------------------------------------------------------------------
(* Properties of the radio peripheral registry *)

\* C14: after a valid radio report every active slot has a runtime id, each
\* id requested during the report was requested with the serial of a slot
\* and is the one stored in that slot, and a slot keeps the first non-zero
\* id it was given, whether it is active or not.
C14_RuntimeIds ==
    /\ iteration.radio_decoded =>
        /\ \A s \in DOMAIN radio : radio[s].active => radio[s].dev_id # 0
        /\ \A i \in 1..Len(iteration.requested) :
               \E s \in DOMAIN radio :
                   /\ radio[s].active
                   /\ radio[s].serial = iteration.requested[i]
                   /\ radio[s].dev_id = ids[iteration.requested[i]]
    /\ \A s \in DOMAIN radio :
           /\ first_id[s] # 0 => radio[s].dev_id = first_id[s]
           /\ first_id[s] = 0 => radio[s].dev_id = 0
    /\ \A a \in DOMAIN ids, b \in DOMAIN ids : ids[a] = ids[b] => a = b

\* the remote was given its id under one serial, and is active under
\* another one with the same id; a touch controller that has an id is
\* inactive
C14_Witness ==
    /\ iteration.radio_decoded
    /\ radio.remote.active /\ radio.remote.serial = "R2"
    /\ "R1" \in DOMAIN ids /\ radio.remote.dev_id = ids["R1"]
    /\ ~radio.touch0.active /\ radio.touch0.dev_id # 0

-----------------------------------------------------------------------------
(* Properties of teardown and radio discovery *)

DiscoveryOps == {"rift_radio_start_discovery", "rift_radio_stop_discovery"}

\* rift_stop has run and no operation was invoked since: the stop was asked
\* for directly, or by a discovery toggle on an active device
StopRan ==
    /\ stop_pc = "stopped"
    /\ \/ last_op.name = "ouvrt_device_stop"
       \/ last_op.name \in DiscoveryOps /\ last_op.on /\ last_op.was

\* the calls rift_stop made: the log from the tracker call on
StopLog ==
    LET k == CHOOSE i \in 1..Len(calls) :
                 calls[i].op = "tracker_unregister_leds"
    IN  SubSeq(calls, k, Len(calls))

\* the positions in the log of the calls with this operation and id
At(log, op, id) ==
    {i \in 1..Len(log) : log[i].op = op /\ log[i].id = id}

Before(a, b) == \A i \in a, j \in b : i < j

\* C15: rift_stop first unregisters the LEDs, powers down (CV1), disables
\* tracking and sets the report rate for 50 Hz, in this order.  On a CV1
\* with a reboot requested it then closes the radio handle, sends one
\* bootload command carrying the boot target, and closes the main handle
\* last, and both handles are -1.  Otherwise it sends no bootload command,
\* closes nothing and the handles are as they were.
C15_RebootTeardown ==
    StopRan =>
        LET log == StopLog
            power == At(log, "get_feature_report", "CV1_POWER")
                     \cup At(log, "send_feature_report", "CV1_POWER")
            tracking == At(log, "get_feature_report", "TRACKING")
                        \cup At(log, "send_feature_report", "TRACKING")
            config == At(log, "get_feature_report", "CONFIG")
                      \cup At(log, "send_feature_report", "CONFIG")
            close_radio == At(log, "close", "fds[1]")
            bootload == At(log, "send_feature_report", "BOOTLOAD")
            close_main == At(log, "close", "fd")
        IN  /\ log[1].op = "tracker_unregister_leds"
            /\ ~leds_registered
            /\ (power # {}) = IsCV1
            /\ Cardinality(At(log, "send_feature_report", "TRACKING")) = 1
            /\ \A i \in At(log, "send_feature_report", "TRACKING") :
                   log[i].mode = "off"
            /\ config # {}
            /\ \A i \in At(log, "send_feature_report", "CONFIG") :
                   /\ log[i].num = hw.sample_rate \div 50 - 1
                   /\ log[i].ret >= 0 => report_rate = 50
            /\ Before({1}, power \cup tracking)
            /\ Before(power, tracking) /\ Before(tracking, config)
            /\ IF IsCV1 /\ reboot
               THEN /\ Cardinality(close_radio) = 1
                    /\ Cardinality(bootload) = 1
                    /\ close_main = {Len(log)}
                    /\ Before(config, close_radio)
                    /\ Before(close_radio, bootload)
                    /\ Before(bootload, close_main)
                    /\ \A i \in close_radio : log[i].num = 4
                    /\ \A i \in bootload : log[i].num = boot_mode
                    /\ \A i \in close_main : log[i].num = 3
                    /\ fds = <<-1, -1>>
               ELSE /\ close_radio = {} /\ bootload = {} /\ close_main = {}
                    /\ fds = IF IsCV1 THEN <<3, 4>> ELSE <<3, -1>>

\* a CV1 asked to reboot into pairing mode has been stopped: every transfer
\* succeeded, both handles are closed and the headset is in pairing mode
C15_Witness ==
    /\ StopRan /\ IsCV1 /\ reboot /\ boot_mode = RIFT_BOOT_RADIO_PAIRING
    /\ \A i \in 1..Len(calls) : calls[i].ret >= 0
    /\ fds = <<-1, -1>> /\ hw.boot_mode = RIFT_BOOT_RADIO_PAIRING

\* a DK2 with the reboot flag set has been stopped and its handle is open
C15_WitnessDK2 ==
    /\ StopRan /\ ~IsCV1 /\ reboot /\ fds[1] >= 0

\* a step of one of the discovery toggles: an operation from outside the
\* worker, invoked while no stop is in progress
DiscoveryStep ==
    /\ stop_pc # "joining"
    /\ worker' = worker
    /\ last_op'.name \in DiscoveryOps

\* C16: a discovery toggle first reads the boot mode.  If the read fails or
\* yields the mode the toggle is for (pairing for start, normal for stop)
\* it changes no device state and does not invoke the stop; otherwise it
\* records that mode as the boot target, sets reboot and invokes the stop.
C16_DiscoveryToggle ==
    [][DiscoveryStep =>
        /\ last_op'.num = IF last_op'.name = "rift_radio_start_discovery"
                          THEN RIFT_BOOT_RADIO_PAIRING ELSE RIFT_BOOT_NORMAL
        /\ calls'[1].op = "get_feature_report" /\ calls'[1].id = "BOOTLOAD"
        /\ last_op'.ret = rift_get_boot_mode(
                              [ret |-> calls'[1].ret,
                               bootload |-> hw.boot_mode]).ret
        /\ IF last_op'.ret < 0 \/ last_op'.ret = last_op'.num
           THEN /\ Len(calls') = 1
                /\ ~last_op'.on
                /\ UNCHANGED <<boot_mode, reboot, active, stop_pc, fds,
                               flicker, leds_registered, hw, rateVars,
                               radio, ids>>
           ELSE /\ boot_mode' = last_op'.num
                /\ reboot'
                /\ last_op'.on
                /\ Len(calls') = 2 /\ calls'[2].op = "ouvrt_device_stop"
                /\ ~active'
                /\ active => stop_pc' = "joining"
    ]_vars

\* start of discovery on an active CV1 in normal mode: the reboot into
\* pairing mode is recorded and the stop is in progress
C16_Witness ==
    /\ last_op.name = "rift_radio_start_discovery" /\ last_op.on
    /\ last_op.was /\ last_op.ret = RIFT_BOOT_NORMAL /\ IsCV1
    /\ boot_mode = RIFT_BOOT_RADIO_PAIRING /\ reboot
    /\ stop_pc = "joining" /\ ~active

\* start of discovery on an active CV1 that is in pairing mode already
C16_WitnessNoOp ==
    /\ last_op.name = "rift_radio_start_discovery" /\ ~last_op.on
    /\ last_op.ret = RIFT_BOOT_RADIO_PAIRING /\ IsCV1
    /\ ~reboot /\ active /\ stop_pc = "none"

\* stop of discovery on an active CV1 that is in pairing mode
C16_WitnessStop ==
    /\ last_op.name = "rift_radio_stop_discovery" /\ last_op.on
    /\ last_op.ret = RIFT_BOOT_RADIO_PAIRING /\ IsCV1
    /\ boot_mode = RIFT_BOOT_NORMAL /\ reboot /\ ~active

-----------------------------------------------------------------------------
(* Properties of the concurrency of the worker and its callers *)

\* C18: an operation invoked from outside the worker while the device is
\* active and the worker runs makes no transfer on the main handle and
\* writes no per-device state: a flicker toggle leaves the flag alone, a
\* discovery toggle records nothing.
C18_NoConcurrentEffect ==
    /\ (FlickerCalled /\ active /\ WorkerRunning) =>
            TransportCalls = {} /\ flicker = last_op.was
    /\ (last_op.name \in DiscoveryOps /\ last_op.was /\ WorkerRunning) =>
            TransportCalls = {} /\ ~last_op.on

-----------------------------------------------------------------------------
(* Properties of the illumination mode *)

\* the tracking-enable reports sent by the operation observed in calls
TrackingSends ==
    {i \in 1..Len(calls) :
        calls[i].op = "send_feature_report" /\ calls[i].id = "TRACKING"}

\* C21: while the device is active, the mode of the tracking-enable report
\* sent last (blinking or always-on) is the one the stored flicker flag
\* selects, and so is the mode the headset is in.
C21_ModeFollowsFlag ==
    (active /\ pc = "idle" /\ TrackingSends # {}) =>
        /\ \A i \in TrackingSends :
               (\A j \in TrackingSends : j <= i) =>
                   calls[i].mode = FlickerMode(flicker)
        /\ (\A i \in TrackingSends : calls[i].ret >= 0) =>
               hw.tracking = FlickerMode(flicker)

-----------------------------------------------------------------------------
(* Properties of the life of a device object *)

BootloadSent ==
    \E i \in 1..Len(calls) :
        calls[i].op = "send_feature_report" /\ calls[i].id = "BOOTLOAD"

\* C22: rift_stop sends a bootload command or closes the handles only if a
\* discovery toggle has recorded a reboot since the rift_stop before.
C22_RebootConsumed ==
    [][(stop_pc = "joining" /\ stop_pc' = "stopped") =>
          ((BootloadSent' \/ fds' # fds) => reboot_recorded)]_vars

TrackerOps ==
    {"tracker_set_radio_address", "tracker_register_leds",
     "tracker_add_exposure", "tracker_unregister_leds"}

\* C23: when rift_start calls a tracker operation the device holds its
\* tracker reference.
C23_TrackerHeld ==
    (last_op.name = "rift_start"
     /\ \E i \in 1..Len(calls) : calls[i].op \in TrackerOps) =>
        tracker = "held"

-----------------------------------------------------------------------------
(* Properties of the position table *)

PositionsRead == last_op.name = "rift_get_positions"

\* C24: every index of the LED model written by rift_get_positions lies
\* below the number of LEDs the model was initialised with (num - 1, at
\* most 44), and a call that succeeds has read exactly num reports.
C24_LedIndexBelowCount ==
    PositionsRead =>
        /\ \A i \in points : i < num_points /\ num_points <= 44
        /\ last_op.ret = 0 => position_reads = num_points + 1

\* the part of C24 about the number of reads, and the bound the code does
\* enforce: an index written is at most the number of LEDs
C24_ExactReads ==
    PositionsRead =>
        /\ last_op.ret = 0 => position_reads = num_points + 1
        /\ \A i \in points : i <= num_points /\ num_points <= 44

-----------------------------------------------------------------------------
(* Report-rate round trip *)

\* what rift_get_config (rift.c:89-96) would store if it read back the
\* configuration the device now holds
ConfigReadBack == rift_get_config(ConfigResponse(0))

\* C25: after a successful rift_set_report_rate(r) the stored report_rate
\* and report_interval equal what a subsequent rift_get_config would derive
\* from the configuration just written, sample_rate / (packet_interval + 1),
\* for every r and every sample_rate.
C25_RateRoundTrip ==
    RateCallSucceeded =>
        /\ hw.packet_interval + 1 # 0
        /\ report_rate = ConfigReadBack.report_rate
        /\ report_interval = ConfigReadBack.report_interval

\* the round trip does hold when the sample rate is at least 5 and the
\* stored rate divides it, as for the rate rift_start asks for (1000 of 1000)
C25_ExactDivisors ==
    (RateCallSucceeded /\ hw.sample_rate >= 5
        /\ hw.sample_rate % report_rate = 0) =>
        /\ hw.packet_interval + 1 # 0
        /\ report_rate = ConfigReadBack.report_rate
        /\ report_interval = ConfigReadBack.report_interval

====
